---- MODULE Spec2Model ----
(***************************************************************************)
(* Model of the pokemon-scanner resolution pipeline:                       *)
(*   - the scans table of the SQLite cache (src/store/cache.py),           *)
(*   - the batch driver of the `price` command (src/cli.py),               *)
(*   - the catalog HTTP clients with their backoff loop                    *)
(*     (src/resolve/poketcg.py),                                           *)
(*   - the resolver's matching operations (MatchSpec), its rate-limit      *)
(*     gate under concurrent callers (GateSpec), and the cards and prices  *)
(*     tables of the cache with their clock (CacheSpec),                   *)
(*   - the history of the scans table under insert_scan,                   *)
(*     update_scan_status and get_new_scans (ScanSpec),                    *)
(*   - the match confidence in binary64 arithmetic (src/match/score.py,    *)
(*     ScoreSpec),                                                         *)
(*   - the geometric verifier and the reranker (src/match/rerank.py,       *)
(*     RerankSpec), the retry decorator (src/utils/retry.py, RetrySpec)    *)
(*     and the reference index with its id table                           *)
(*     (src/reference/build_index.py, src/match/ann_index.py, IndexSpec).  *)
(* Times are in tenths of a second.  Strings that the code compares or     *)
(* measures (names, numbers, card ids) are sequences of characters.        *)
(***************************************************************************)
EXTENDS Integers, Sequences, FiniteSets, TLC

\* ------------------------------------------------------------------ bounds
\* Number of rows in the scans table when the run starts.
MaxScans == 2

\* --------------------------------------------------------------- constants
\* core/constants.py: BACKOFF_S = [0.2, 1.0, 3.0]
BACKOFF_S == <<2, 10, 30>>
\* PokemonTCGResolver.__init__: self.min_request_interval = 0.2
min_request_interval == 2
\* cli._apply_rate_limiting: sleep_time = 0.2
sleep_time == 2
\* the statuses both clients retry on
RETRY_STATUSES == {429, 500, 502, 503, 504}
\* the statuses the scans table is written with by the pipeline
STATUSES == {"NEW", "COMPLETED", "SKIPPED", "NO_MATCH", "ERROR"}

\* ------------------------------------------------------- optional values
NoneV == [some |-> FALSE, val |-> <<>>]
Some(v) == [some |-> TRUE, val |-> v]
\* Python truthiness of an optional string / dict value
Truthy(o) == o.some /\ o.val # <<>>

\* ------------------------------------------------------ string functions
Max2(a, b) == IF a >= b THEN a ELSE b

\* str.lower() on the alphabet of the model
LowerCh(c) == IF c = "A" THEN "a" ELSE IF c = "B" THEN "b" ELSE c
Lower(s) == [k \in 1..Len(s) |-> LowerCh(s[k])]

\* length of the longest common subsequence of a[1..m] and b[1..n]
RECURSIVE LCS(_, _, _, _)
LCS(a, m, b, n) ==
    IF m = 0 \/ n = 0 THEN 0
    ELSE IF a[m] = b[n] THEN 1 + LCS(a, m - 1, b, n - 1)
    ELSE Max2(LCS(a, m - 1, b, n), LCS(a, m, b, n - 1))

\* rapidfuzz fuzz.ratio: the normalised Indel similarity, 0..100, here in
\* hundredths of a percent: 100 * 2*LCS / (len(a) + len(b)); 100 for two
\* empty strings.
fuzz_ratio(a, b) ==
    IF Len(a) + Len(b) = 0 THEN 10000
    ELSE (20000 * LCS(a, Len(a), b, Len(b))) \div (Len(a) + Len(b))

\* list.sort(key=..., reverse=True)[0]: the first element, in list order,
\* whose key is largest (the sort is stable).  keys[k] is the key of cs[k].
FirstMax(cs, keys) ==
    LET best == CHOOSE k \in 1..Len(cs) :
                   /\ \A j \in 1..Len(cs) : keys[j] <= keys[k]
                   /\ \A j \in 1..(k - 1) : keys[j] < keys[k]
    IN cs[best]

\* ----------------------------------------------------------- data domain
\* The extracted fields stored with a scan (scans.ocr_json): `null` is a
\* NULL column, which get_new_scans turns into the empty dict {}.
OcrNull == [null |-> TRUE, name |-> NoneV, collector_number |-> NoneV]
OcrOf(n, c) == [null |-> FALSE, name |-> n, collector_number |-> c]
ExtractedName == <<"A", "b">>
ExtractedNumber == <<"4", "102">>
OcrValues ==
    { OcrNull,
      OcrOf(NoneV, NoneV),
      OcrOf(Some(<<>>), NoneV),
      OcrOf(Some(ExtractedName), NoneV),
      OcrOf(Some(ExtractedName), Some(ExtractedNumber)) }

\* Raw card records of a catalog response ("data": [...]).
RawCard(id, name, set, number) ==
    [id |-> id, name |-> name, set |-> set, number |-> number,
     releaseDate |-> NoneV]
\* a record whose "set" carries a "releaseDate" (here: the year)
DatedCard(id, name, number, year) ==
    [RawCard(Some(id), Some(name), TRUE, number) EXCEPT !.releaseDate = Some(year)]
rawGood == RawCard(Some(<<"c1">>), Some(<<"a", "b">>), TRUE, <<"4">>)
rawExact == RawCard(Some(<<"c3">>), Some(<<"a", "x">>), TRUE, <<"4", "/", "102">>)
rawPoor == RawCard(Some(<<"c2">>), Some(<<"x", "y">>), TRUE, <<"9">>)
rawNoId == RawCard(NoneV, Some(<<"a", "b">>), TRUE, <<"4">>)
rawNoName == RawCard(Some(<<"c7">>), NoneV, TRUE, <<"4">>)
DataLists ==
    { <<>>, <<rawGood>>, <<rawPoor>>, <<rawPoor, rawGood>>,
      <<rawGood, rawExact>>, <<rawNoId>>, <<rawNoId, rawGood>> }

\* What one GET can come back with: an HTTP status, or a network-level
\* failure (connection error, timeout) raised by the HTTP library.
HttpStatuses == {200, 400, 404, 429, 501, 503}
Status(code) == [net |-> FALSE, status |-> code]
NetError == [net |-> TRUE, status |-> 0]
GetOutcomes == {Status(code) : code \in HttpStatuses} \cup {NetError}

ScanIds == 1..MaxScans

\* ---------------------------------------------------------------- state
VARIABLES
    scans,             \* scans table: id -> [ocr, status]
    cards,             \* cards table: the card ids that have a row
    prices,            \* prices table: the card ids that have a fresh row
    pc,                \* where the batch run (or the stand-alone call) is
    batch,             \* new_scans, the list _process_all_scans iterates
    i,                 \* 1-based index of the scan being processed
    processed_count,
    successful_count,
    best_card,         \* local of _process_single_scan
    price_data,        \* local of _process_single_scan
    req,               \* the catalog request in flight or just finished
    elapsed,           \* time since last_request_time, saturating
    cur,               \* what the run has done for the scan it is at
    gate,              \* the resolver's rate-limit gate and its callers
    match,             \* a call of the resolver's matching operations
    store,             \* the cards and prices tables with their clock
    scanlog,           \* the scans table under the cache's own operations
    score,             \* a call of the confidence score
    rerank,            \* a call of the geometric verifier or the reranker
    retried,           \* a call of a function wrapped by retry
    refindex           \* a build of the reference index and its loading

vars == <<scans, cards, prices, pc, batch, i, processed_count,
          successful_count, best_card, price_data, req, elapsed, cur>>

\* the parts of the state the batch run does not touch
side == <<gate, match, store, scanlog, score, rerank, retried, refindex>>
allvars == <<vars, side>>

NoReq ==
    [client |-> "none", attempt |-> 0, gets |-> 0, sleeps |-> <<>>,
     gate_wait |-> 0,
     first |-> NetError, last |-> NetError, all_retry |-> TRUE,
     all_5xx |-> TRUE, all_net |-> TRUE, outcome |-> "none"]

\* id: the scan; lookup: the price cache was asked; requested: a GET was
\* sent; answered / exhausted: how the catalog request ended; found: the
\* cards search_cards returned; writes: the status writes that took effect;
\* storage_failed: a write to the store raised.
NoCur ==
    [id |-> 0, lookup |-> FALSE, requested |-> FALSE,
     exhausted |-> FALSE, answered |-> FALSE, found |-> <<>>,
     card_written |-> FALSE, price_written |-> FALSE, writes |-> <<>>,
     storage_failed |-> FALSE]

\* price_data is None, a PriceData object (pricing/poketcg_prices.py) or a
\* plain dict; only a dict has .get().
NoPrice == [kind |-> "None"]
PriceData == [kind |-> "PriceData"]

\* the rows a run can find: NEW scans with any extracted fields, and scans
\* an earlier run has completed
InitialRows ==
    [ocr : OcrValues, status : {"NEW"}]
      \cup {[ocr |-> OcrOf(Some(ExtractedName), Some(ExtractedNumber)),
              status |-> "COMPLETED"]}

Init ==
    /\ scans \in [ScanIds -> InitialRows]
    /\ cards = {}
    /\ prices = {}
    /\ pc = "idle"
    /\ batch = <<>>
    /\ i = 0
    /\ processed_count = 0
    /\ successful_count = 0
    /\ best_card = NoneV
    /\ price_data = NoPrice
    /\ req = NoReq
    /\ elapsed = min_request_interval
    /\ cur = NoCur
    /\ gate = <<>>
    /\ scanlog = <<>>
    /\ score = <<>>
    /\ rerank = <<>>
    /\ retried = <<>>
    /\ refindex = <<>>
    /\ match = <<>>
    /\ store = <<>>

\* the gate's view of the clock after d more tenths have passed
Advance(e, d) == IF e + d >= min_request_interval THEN min_request_interval
                 ELSE e + d

\* ------------------------------------------------------ catalog resolver
\* PokemonTCGResolver._parse_card_data: none for a record that lacks "id",
\* "name" or "set".
parse_ok(raw) == raw.id.some /\ raw.name.some /\ raw.set

ResolvedCard(raw) ==
    [card_id |-> raw.id.val, name |-> raw.name.val, number |-> raw.number,
     set_release_date |-> raw.releaseDate]

\* A variant of the loop of search_cards over all of cards_data.
parsed_cards_unlimited(data, limit) ==
    [k \in 1..Len(SelectSeq(data, parse_ok)) |->
        ResolvedCard(SelectSeq(data, parse_ok)[k])]

\* search_cards, lines 238-247: the parsed records of cards_data[:limit]
parsed_cards(data, limit) ==
    LET head == SubSeq(data, 1, IF Len(data) < limit THEN Len(data)
                                ELSE limit)
    IN [k \in 1..Len(SelectSeq(head, parse_ok)) |->
           ResolvedCard(SelectSeq(head, parse_ok)[k])]

\* search_cards(query, limit: int = 10)
search_limit == 10
ParsedCards(data) == parsed_cards(data, search_limit)

\* f"{num}/{den}" of the extracted collector number
number_str(cn) == <<cn[1], "/", cn[2]>>

\* PokemonTCGResolver.find_best_match(cards, card_info), for a non-empty
\* list: the exact-number matches ranked by name similarity (the candidate's
\* name is not lower-cased on this path), else all cards ranked by name
\* similarity, else the first card.
ExactMatches(cs, card_info) ==
    SelectSeq(cs, LAMBDA c : c.number = number_str(card_info.collector_number.val))

find_best_match(cs, card_info) ==
    LET name == card_info.name.val
        RawKey(c) == fuzz_ratio(Lower(name), c.name)
        LowKey(c) == fuzz_ratio(Lower(name), Lower(c.name))
    IN IF card_info.collector_number.some
          /\ ExactMatches(cs, card_info) # <<>>
       THEN IF Truthy(card_info.name)
            THEN FirstMax(ExactMatches(cs, card_info),
                          [k \in 1..Len(ExactMatches(cs, card_info)) |->
                              RawKey(ExactMatches(cs, card_info)[k])])
            ELSE ExactMatches(cs, card_info)[1]
       ELSE IF Truthy(card_info.name)
            THEN FirstMax(cs, [k \in 1..Len(cs) |-> LowKey(cs[k])])
            ELSE cs[1]

\* PokemonTCGResolver._find_best_match(card_info, cards): none for an empty
\* list; else the first of the cards whose number equals f"{num}/{den}",
\* ranked by name similarity; else the first of all cards ranked by name
\* similarity; else the first card.  No score is compared with a threshold
\* and no release date is read.
_find_best_match(card_info, cs) ==
    LET name == card_info.name.val
        LowKey(c) == fuzz_ratio(Lower(name), Lower(c.name))
        exact == IF card_info.collector_number.some
                 THEN ExactMatches(cs, card_info) ELSE <<>>
    IN IF cs = <<>> THEN NoneV
       ELSE IF exact # <<>>
       THEN IF Truthy(card_info.name)
            THEN Some(FirstMax(exact, [k \in 1..Len(exact) |-> LowKey(exact[k])]))
            ELSE Some(exact[1])
       ELSE IF Truthy(card_info.name)
            THEN Some(FirstMax(cs, [k \in 1..Len(cs) |-> LowKey(cs[k])]))
            ELSE Some(cs[1])

\* PokemonTCGResolver.search_cards once its catalog request r has ended
\* with the raw list `data`: the parsed cards, or the empty list when the
\* request raised (except Exception: return []).  raised: an exception
\* reaches the caller.
search_cards_limit(r, data, limit) ==
    [raised |-> FALSE,
     val |-> IF r.outcome = "raised" THEN <<>> ELSE parsed_cards(data, limit)]

\* search_cards called without a limit
search_cards(r, data) == search_cards_limit(r, data, search_limit)

\* PokemonTCGResolver.resolve_card: none without a name and a number, none
\* for no cards, else _find_best_match; every exception becomes none.
resolve_card(r, data, card_info) ==
    [raised |-> FALSE,
     val |-> IF ~card_info.collector_number.some /\ ~Truthy(card_info.name)
             THEN NoneV
             ELSE _find_best_match(card_info, search_cards(r, data).val)]

\* ----------------------------------------------------- faulty variants
\* A loop that gives up the retry schedule but not the answer: the last
\* response is returned whatever its status (raise_for_status left out).
step_without_raise(attempt, r) ==
    IF r.net THEN "raise"
    ELSE IF r.status \in RETRY_STATUSES /\ attempt < Len(BACKOFF_S) THEN "retry"
    ELSE "return"

\* A loop that retries on every error status, not only on RETRY_STATUSES.
step_retrying_any_error(attempt, r) ==
    IF r.net THEN "raise"
    ELSE IF r.status >= 400 /\ attempt < Len(BACKOFF_S) THEN "retry"
    ELSE IF r.status >= 400 THEN "raise"
    ELSE "return"

\* ------------------------------------------------------- the HTTP clients
\* What one pass of the loop `for attempt, delay in enumerate([0.0,
\* *BACKOFF_S])` does with the outcome r of its GET.
\* PokemonTCGResolver._request_with_backoff: only aiohttp.ClientResponseError
\* is caught, so a network-level failure leaves the loop at once.
request_with_backoff_step(attempt, r) ==
    IF r.net THEN "raise"
    ELSE IF r.status \in RETRY_STATUSES /\ attempt < Len(BACKOFF_S) THEN "retry"
    ELSE IF r.status >= 400 THEN "raise"
    ELSE "return"

\* _fetch_json (module level): no try/except at all.
fetch_json_step(attempt, r) ==
    IF r.net THEN "raise"
    ELSE IF r.status \in RETRY_STATUSES /\ attempt < Len(BACKOFF_S) THEN "retry"
    ELSE IF r.status >= 400 THEN "raise"
    ELSE "return"

\* A variant of the schedule that sleeps the first delay before every retry.
delay_before_always_first(attempt) == IF attempt = 0 THEN 0 ELSE BACKOFF_S[1]

\* the delay slept before attempt number `attempt` (0-based)
delay_before(attempt) == IF attempt = 0 THEN 0 ELSE BACKOFF_S[attempt]

\* one pass of the loop: sleep the delay, GET, decide (what: the decision of
\* the client's step on the outcome r).  req keeps what the
\* request has done so far: the number of GETs, the delays slept in the
\* loop (gate_wait: the time _rate_limit slept before the loop), and what
\* all its responses had in common.
LoopPass(what, r) ==
    LET d == delay_before(req.attempt)
    IN /\ req' = [req EXCEPT
                    !.sleeps = IF d > 0 THEN Append(@, d) ELSE @,
                    !.gets = @ + 1,
                    !.first = IF req.gets = 0 THEN r ELSE @,
                    !.last = r,
                    !.all_retry = @ /\ ~r.net /\ r.status \in RETRY_STATUSES,
                    !.all_5xx = @ /\ ~r.net
                                  /\ (r.status = 429 \/ r.status >= 500),
                    !.all_net = @ /\ r.net,
                    !.attempt = IF what = "retry" THEN @ + 1 ELSE @,
                    !.outcome = IF what = "retry" THEN "pending"
                                ELSE IF what = "raise" THEN "raised"
                                ELSE "returned"]
       /\ elapsed' = Advance(elapsed, d)

\* ------------------------------------------------------- cache operations
\* Every write to the store either succeeds (ok) or fails with a sqlite
\* error that the cache method logs and re-raises.

\* CacheManager.get_new_scans: the rows with status NEW, in ts order (rows
\* are created in id order), each as a dict whose extracted fields sit
\* under the key "ocr_data".
RECURSIVE NewRows(_)
NewRows(n) ==
    IF n = 0 THEN <<>>
    ELSE IF scans[n].status = "NEW"
         THEN Append(NewRows(n - 1), n)
         ELSE NewRows(n - 1)

ScanDict(id, key) == [id |-> id, key |-> key, fields |-> scans[id].ocr]

get_new_scans ==
    LET rows == NewRows(MaxScans)
    IN [k \in 1..Len(rows) |-> ScanDict(rows[k], "ocr_data")]

\* CacheManager.update_scan_status: raises when the storage fails or when no
\* row has this id (rowcount == 0); the transaction is rolled back then.
update_scan_status_raises(id, ok) == ~ok \/ id \notin DOMAIN scans

update_scan_status(tbl, id, status, ok) ==
    IF update_scan_status_raises(id, ok) THEN tbl
    ELSE [tbl EXCEPT ![id].status = status]

\* the status writes that took effect while the run was at this scan
Written(c, id, status, ok) ==
    IF update_scan_status_raises(id, ok)
    THEN [c EXCEPT !.storage_failed = TRUE]
    ELSE [c EXCEPT !.writes = Append(@, <<id, status>>)]

\* CacheManager.get_price_data_from_cache: a row of prices joined with cards
\* on card_id, fresh within max_age_hours.
get_price_data_from_cache(card_id) == card_id \in prices /\ card_id \in cards

\* ------------------------------------------------------------ cli helpers
\* cli._has_valid_ocr_data reads scan["ocr_json"]: KeyError without the key.
has_valid_ocr_data_raises(scan) == scan.key # "ocr_json"

has_valid_ocr_data(scan) == ~scan.fields.null /\ Truthy(scan.fields.name)

\* cli._build_cache_key
build_cache_key(card_info) ==
    IF Truthy(card_info.name) /\ card_info.collector_number.some
    THEN card_info.name.val \o <<"_">> \o card_info.collector_number.val
    ELSE card_info.name.val

Running == pc \notin {"idle", "done", "aborted", "interrupted"}

\* ------------------------------------------------------- the batch driver
\* cli.price: new_scans = card_cache.get_new_scans(); return when empty,
\* else _process_all_scans(new_scans, ...).
Price ==
    /\ pc = "idle"
    /\ UNCHANGED side
    /\ batch' = get_new_scans
    /\ pc' = IF get_new_scans = <<>> THEN "done" ELSE "loop"
    /\ i' = 1
    /\ cur' = NoCur
    /\ UNCHANGED <<scans, cards, prices, processed_count, successful_count,
                   best_card, price_data, req, elapsed>>

\* _process_all_scans called with scan dicts that carry their extracted
\* fields under "ocr_json", the key _process_single_scan reads.
ProcessAllScans ==
    /\ pc = "idle"
    /\ UNCHANGED side
    /\ get_new_scans # <<>>
    /\ batch' = [k \in 1..Len(get_new_scans) |->
                   ScanDict(get_new_scans[k].id, "ocr_json")]
    /\ pc' = "loop"
    /\ i' = 1
    /\ cur' = NoCur
    /\ UNCHANGED <<scans, cards, prices, processed_count, successful_count,
                   best_card, price_data, req, elapsed>>

\* _process_single_scan up to the cache check (cli.py 573-592).
ProcessSingleScan ==
    /\ pc = "loop"
    /\ UNCHANGED side
    /\ i <= Len(batch)
    /\ LET scan == batch[i]
           key == build_cache_key(scan.fields)
       IN IF has_valid_ocr_data_raises(scan)
          THEN /\ pc' = "handler"
               /\ cur' = [NoCur EXCEPT !.id = scan.id]
               /\ UNCHANGED <<scans, best_card, price_data>>
          ELSE IF ~has_valid_ocr_data(scan)
          THEN \E ok \in BOOLEAN :
                 /\ scans' = update_scan_status(scans, scan.id, "SKIPPED", ok)
                 /\ cur' = Written([NoCur EXCEPT !.id = scan.id],
                                    scan.id, "SKIPPED", ok)
                 /\ pc' = IF update_scan_status_raises(scan.id, ok)
                          THEN "handler" ELSE "processed"
                 /\ UNCHANGED <<best_card, price_data>>
          ELSE /\ cur' = [NoCur EXCEPT !.id = scan.id, !.lookup = TRUE]
               /\ best_card' = NoneV
               /\ price_data' = IF get_price_data_from_cache(key)
                                THEN PriceData ELSE NoPrice
               /\ pc' = IF get_price_data_from_cache(key)
                        THEN "csv" ELSE "resolve"
               /\ UNCHANGED scans
    /\ UNCHANGED <<cards, prices, batch, i, processed_count,
                   successful_count, req, elapsed>>

\* _process_all_scans after _process_single_scan returned (cli.py 546-552):
\* count the scan and sleep between cards.
ApplyRateLimiting ==
    /\ pc \in {"processed", "succeeded"}
    /\ UNCHANGED side
    /\ successful_count' = IF pc = "succeeded" THEN successful_count + 1
                           ELSE successful_count
    /\ processed_count' = processed_count + 1
    /\ elapsed' = IF i < Len(batch) THEN Advance(elapsed, sleep_time)
                  ELSE elapsed
    /\ i' = i + 1
    /\ pc' = "loop"
    /\ UNCHANGED <<scans, cards, prices, batch, best_card, price_data, req, cur>>

\* the except clause of _process_all_scans (cli.py 554-564)
HandleScanError ==
    /\ pc = "handler"
    /\ UNCHANGED side
    /\ \E ok \in BOOLEAN :
         /\ scans' = update_scan_status(scans, batch[i].id, "ERROR", ok)
         /\ cur' = Written(cur, batch[i].id, "ERROR", ok)
         /\ pc' = IF update_scan_status_raises(batch[i].id, ok)
                  THEN "aborted" ELSE "loop"
         /\ i' = IF update_scan_status_raises(batch[i].id, ok) THEN i ELSE i + 1
    /\ UNCHANGED <<cards, prices, batch, processed_count, successful_count,
                   best_card, price_data, req, elapsed>>

\* the for loop runs out: return processed_count, successful_count
Return ==
    /\ pc = "loop"
    /\ UNCHANGED side
    /\ i > Len(batch)
    /\ pc' = "done"
    /\ UNCHANGED <<scans, cards, prices, batch, i, processed_count,
                   successful_count, best_card, price_data, req, elapsed, cur>>

\* an operator interrupt (KeyboardInterrupt) ends the run where it stands
KeyboardInterrupt ==
    /\ Running
    /\ UNCHANGED side
    /\ pc' = "interrupted"
    /\ UNCHANGED <<scans, cards, prices, batch, i, processed_count,
                   successful_count, best_card, price_data, req, elapsed, cur>>

\* _resolve_and_price_card up to the GET loop (cli.py 634-637):
\* search_cards -> _request_with_backoff -> _ensure_session, _rate_limit.
\* The gate waits out the rest of the interval and stamps last_request_time.
SearchCards ==
    /\ pc = "resolve"
    /\ UNCHANGED side
    /\ req' = [NoReq EXCEPT !.client = "resolver", !.outcome = "pending",
                            !.gate_wait = min_request_interval - elapsed]
    /\ elapsed' = 0
    /\ pc' = "http"
    /\ UNCHANGED <<scans, cards, prices, batch, i, processed_count,
                   successful_count, best_card, price_data, cur>>

\* one pass of the GET loop of _request_with_backoff
RequestWithBackoff ==
    /\ pc = "http"
    /\ UNCHANGED side
    /\ req.client = "resolver"
    /\ \E r \in GetOutcomes :
         /\ LoopPass(request_with_backoff_step(req.attempt, r), r)
         /\ pc' = IF request_with_backoff_step(req.attempt, r) = "retry"
                  THEN "http" ELSE "resolved"
    /\ cur' = [cur EXCEPT !.requested = TRUE]
    /\ UNCHANGED <<scans, cards, prices, batch, i, processed_count,
                   successful_count, best_card, price_data>>

\* every response of the finished request asked for a retry and the
\* schedule ran out
Exhausted(r) ==
    /\ r.outcome = "raised"
    /\ r.gets = 1 + Len(BACKOFF_S)
    /\ r.all_retry

\* search_cards (the "data" list of the JSON answer parsed; except
\* Exception: return []) and the rest of _resolve_and_price_card (cli.py
\* 638-663).  oks: the outcomes of the first write, the second write and the
\* update in the except clause.
ResolveAndPriceCard ==
    /\ pc = "resolved"
    /\ UNCHANGED side
    /\ \E data \in DataLists :
       (req.outcome = "returned" \/ data = <<>>) /\
       LET id == batch[i].id
           card_info == batch[i].fields
           found == search_cards(req, data).val
           h1 == [cur EXCEPT !.exhausted = Exhausted(req),
                             !.answered = (req.outcome = "returned"),
                             !.found = found]
       IN \E oks \in [1..3 -> BOOLEAN] :
            /\ IF found = <<>>
               THEN \* update_scan_status(scan_id, "NO_MATCH"); return None
                    /\ oks[2]
                    /\ oks[1] => oks[3]
                    /\ scans' = IF oks[1]
                                THEN update_scan_status(scans, id, "NO_MATCH", TRUE)
                                ELSE update_scan_status(scans, id, "ERROR", oks[3])
                    /\ cur' = IF oks[1]
                              THEN Written(h1, id, "NO_MATCH", TRUE)
                              ELSE Written(Written(h1, id, "NO_MATCH", FALSE),
                                           id, "ERROR", oks[3])
                    /\ pc' = IF ~oks[1] /\ ~oks[3] THEN "handler" ELSE "processed"
                    /\ UNCHANGED <<cards, prices, best_card, price_data>>
               ELSE \* find_best_match, extract prices, upsert_card, upsert_prices
                    LET best == find_best_match(found, card_info)
                    IN /\ oks[1] \/ oks[2]
                       /\ (oks[1] /\ oks[2]) => oks[3]
                       /\ cards' = IF oks[1] THEN cards \cup {best.card_id}
                                   ELSE cards
                       /\ prices' = IF oks[1] /\ oks[2]
                                    THEN prices \cup {best.card_id} ELSE prices
                       /\ scans' = IF oks[1] /\ oks[2] THEN scans
                                   ELSE update_scan_status(scans, id, "ERROR", oks[3])
                       /\ cur' = [(IF oks[1] /\ oks[2] THEN h1
                                   ELSE Written(h1, id, "ERROR", oks[3]))
                                    EXCEPT !.card_written = oks[1],
                                           !.price_written = oks[1] /\ oks[2],
                                           !.storage_failed =
                                               ~(oks[1] /\ oks[2] /\ oks[3])]
                       /\ best_card' = IF oks[1] /\ oks[2] THEN Some(best)
                                       ELSE NoneV
                       /\ price_data' = IF oks[1] /\ oks[2] THEN PriceData
                                        ELSE NoPrice
                       /\ pc' = IF oks[1] /\ oks[2] THEN "csv"
                                ELSE IF oks[3] THEN "processed" ELSE "handler"
    /\ req' = NoReq
    /\ UNCHANGED <<batch, i, processed_count, successful_count, elapsed>>

\* A build_row that takes any price_data (reads fields, not .get()).
build_row_accepting(pd) == FALSE

\* csv_writer.build_row calls price_data.get(...): AttributeError unless
\* price_data is a dict.
build_row_raises(pd) == pd.kind # "dict"

\* _display_scan_results evaluates `"set" in best_card`: TypeError for a
\* ResolvedCard, skipped for None.
display_scan_results_raises(card) == card.some

\* _write_csv_row and the end of _process_single_scan (cli.py 600-607,
\* 677-699).
WriteCsvRow ==
    /\ pc = "csv"
    /\ UNCHANGED side
    /\ LET id == batch[i].id
       IN \E ok \in BOOLEAN :
            /\ IF build_row_raises(price_data)
               THEN /\ scans' = update_scan_status(scans, id, "ERROR", ok)
                    /\ cur' = Written(cur, id, "ERROR", ok)
                    /\ pc' = IF update_scan_status_raises(id, ok)
                             THEN "handler" ELSE "processed"
               ELSE /\ scans' = update_scan_status(scans, id, "COMPLETED", ok)
                    /\ cur' = Written(cur, id, "COMPLETED", ok)
                    /\ pc' = IF update_scan_status_raises(id, ok)
                                \/ display_scan_results_raises(best_card)
                             THEN "handler" ELSE "succeeded"
    /\ UNCHANGED <<cards, prices, batch, i, processed_count, successful_count,
                   best_card, price_data, req, elapsed>>

\* get_card / search_by_number_name: a stand-alone call of _fetch_json
GetCard ==
    /\ pc = "idle"
    /\ UNCHANGED side
    /\ req' = [NoReq EXCEPT !.client = "fetch_json", !.outcome = "pending"]
    /\ pc' = "fetch"
    /\ UNCHANGED <<scans, cards, prices, batch, i, processed_count,
                   successful_count, best_card, price_data, elapsed,
                   cur>>

\* one pass of the GET loop of _fetch_json
FetchJson ==
    /\ pc = "fetch"
    /\ UNCHANGED side
    /\ req.client = "fetch_json"
    /\ \E r \in GetOutcomes :
         /\ LoopPass(fetch_json_step(req.attempt, r), r)
         /\ pc' = IF fetch_json_step(req.attempt, r) = "retry"
                  THEN "fetch" ELSE "done"
    /\ UNCHANGED <<scans, cards, prices, batch, i, processed_count,
                   successful_count, best_card, price_data, cur>>

Next ==
    \/ Price
    \/ ProcessAllScans
    \/ ProcessSingleScan
    \/ SearchCards
    \/ RequestWithBackoff
    \/ ResolveAndPriceCard
    \/ WriteCsvRow
    \/ ApplyRateLimiting
    \/ HandleScanError
    \/ Return
    \/ KeyboardInterrupt
    \/ GetCard
    \/ FetchJson

Spec == Init /\ [][Next]_allvars

\* ================================================================ claims
\* the request in req has ended
Finished(r) == r.outcome \in {"raised", "returned"}

\* an error status that is neither 429 nor 5xx
OtherError(r) == ~r.net /\ r.status >= 400 /\ r.status < 500 /\ r.status # 429

C9_OtherErrorRaisesAtOnce ==
    /\ (req.gets > 0 /\ OtherError(req.last)) => req.outcome = "raised"
    /\ (req.gets > 0 /\ OtherError(req.first))
          => (req.gets = 1 /\ req.sleeps = <<>> /\ req.outcome = "raised")

\* C9 witness: a request that was answered 404 and raised.
C9_Witness ==
    /\ req.outcome = "raised"
    /\ req.first = Status(404)
    /\ req.gets = 1

\* C10 (as stated): a request whose every GET fails at the network level is
\* retried up to len(BACKOFF_S) times and only then raises.
C10_NetworkFailureRetried ==
    (Finished(req) /\ req.all_net)
        => (req.gets = 1 + Len(BACKOFF_S) /\ req.outcome = "raised")

\* ------------------------------------------------------------ batch run
Terminal == STATUSES \ {"NEW"}

\* the statuses of the scans of the snapshot the run started from
Snapshot == {batch[k].id : k \in DOMAIN batch}

\* the scan in cur has been dealt with: its call of _process_single_scan
\* returned, or the except clause of the loop handled its failure
Settled == cur.id # 0 /\ pc \in {"processed", "succeeded", "loop", "done"}

\* the batch is the list get_new_scans returned
FromGetNewScans == batch # <<>> /\ batch[1].key = "ocr_data"

CurFields == scans[cur.id].ocr
NoName(fields) == fields.null \/ ~Truthy(fields.name)

\* C1 (as stated): no failure raised while a scan is processed, a failure
\* of update_scan_status included, escapes the loop of _process_all_scans,
\* and when the run is over every scan of the batch has been processed.
C1_FailureStaysInLoop ==
    /\ pc # "aborted"
    /\ pc \in {"done", "aborted"}
          => \A id \in Snapshot : scans[id].status # "NEW"

\* C2 (as stated): when the run is over without an operator interrupt,
\* every scan of the NEW snapshot has one of the four terminal statuses.
C2_NoScanLeftNew ==
    pc \in {"done", "aborted"}
        => \A id \in Snapshot : scans[id].status \in Terminal

\* C3: every scan the run selects is NEW when selected; every change of a
\* scan's status goes from NEW to a terminal status; and at most one status
\* write takes effect per scan, so no terminal status is overwritten.
C3_WritesLeaveNewOnce ==
    /\ [](Len(cur.writes) <= 1)
    /\ [](\A k \in DOMAIN cur.writes :
             cur.writes[k][1] = cur.id /\ cur.writes[k][2] \in Terminal)
    /\ [][\A k \in DOMAIN batch' :
             batch' # batch => scans[batch'[k].id].status = "NEW"]_vars
    /\ [][\A id \in ScanIds :
             scans'[id].status # scans[id].status
                => (scans[id].status = "NEW" /\ scans'[id].status \in Terminal
                    /\ id \in Snapshot)]_vars

\* C3 witness: a scan the run selected as NEW has had its one status write.
C3_Witness ==
    /\ Settled
    /\ cur.id \in Snapshot
    /\ cur.writes = << <<cur.id, "NO_MATCH">> >>
    /\ scans[cur.id].status = "NO_MATCH"

\* C4 (as stated): a scan returned by get_new_scans whose extracted fields
\* hold no name ends SKIPPED, with no catalog request and no price-cache
\* lookup made for it.
C4_NoNameSkipped ==
    (Settled /\ FromGetNewScans /\ NoName(CurFields))
        => /\ scans[cur.id].status = "SKIPPED"
           /\ ~cur.lookup
           /\ ~cur.requested

\* C5 (as stated): a named scan whose catalog request failed retryably on
\* every attempt until the schedule ran out ends in ERROR.
C5_ExhaustedEndsInError ==
    (Settled /\ cur.exhausted /\ ~cur.storage_failed)
        => scans[cur.id].status = "ERROR"

\* the name similarity, in hundredths of a percent, of a found card
NameScore(fields, card) == fuzz_ratio(Lower(fields.name.val), Lower(card.name))

\* no found card scores above the acceptance threshold of 60 percent
NoneAcceptable(fields, found) ==
    \A k \in DOMAIN found : NameScore(fields, found[k]) <= 60 * 100

\* C6 (as stated): a named scan whose catalog request was answered but
\* which has no acceptable candidate ends in NO_MATCH, and no card row or
\* price row is written for it.
C6_NoAcceptedCandidateIsNoMatch ==
    (Settled /\ cur.answered /\ ~cur.storage_failed
       /\ NoneAcceptable(CurFields, cur.found))
        => /\ scans[cur.id].status = "NO_MATCH"
           /\ ~cur.card_written
           /\ ~cur.price_written

\* resolution, price extraction and both cache writes succeeded
FullySuccessful ==
    /\ cur.answered
    /\ cur.found # <<>>
    /\ cur.card_written
    /\ cur.price_written
    /\ ~cur.storage_failed

\* C7 (as stated): COMPLETED is written only after resolution, price
\* extraction and the cache writes succeeded, and a fully successful scan
\* gets COMPLETED written exactly once and no other status.
C7_CompletedOnceAfterSuccess ==
    /\ \A k \in DOMAIN cur.writes :
          cur.writes[k][2] = "COMPLETED"
             => (cur.answered /\ cur.card_written /\ cur.price_written)
    /\ (Settled /\ FullySuccessful)
          => cur.writes = << <<cur.id, "COMPLETED">> >>

\* ------------------------------------------- the matching operations
\* The batch run at rest: the state the stand-alone operations below leave
\* untouched.
Quiet ==
    /\ scans = [s \in ScanIds |->
                  [ocr |-> OcrOf(Some(ExtractedName), Some(ExtractedNumber)),
                   status |-> "COMPLETED"]]
    /\ cards = {}
    /\ prices = {}
    /\ pc = "off"
    /\ batch = <<>>
    /\ i = 0
    /\ processed_count = 0
    /\ successful_count = 0
    /\ best_card = NoneV
    /\ price_data = NoPrice
    /\ req = NoReq
    /\ elapsed = min_request_interval
    /\ cur = NoCur

\* longest candidate list handed to the matching operations
MaxCandidates == 3

\* the extracted text handed to resolve_card / _find_best_match
CardInfos ==
    { OcrOf(Some(ExtractedName), Some(ExtractedNumber)),
      OcrOf(Some(ExtractedName), NoneV),
      OcrOf(NoneV, Some(ExtractedNumber)),
      OcrOf(NoneV, NoneV) }

\* catalog records: same name and number in an older and a newer set, same
\* name with another number, a similar and an unrelated name, a record
\* whose number is written as a fraction, a record without "id" and a
\* record without "name"
Candidates ==
    { DatedCard(<<"c1">>, <<"a", "b">>, <<"4">>, 1999),
      DatedCard(<<"c2">>, <<"a", "b">>, <<"4">>, 2000),
      DatedCard(<<"c3">>, <<"a", "b">>, <<"9">>, 1999),
      DatedCard(<<"c4">>, <<"a", "x">>, <<"4">>, 1999),
      DatedCard(<<"c5">>, <<"x", "y">>, <<"9">>, 1999),
      DatedCard(<<"c6">>, <<"a", "b">>, <<"4", "/", "102">>, 1999),
      rawNoId, rawNoName }

\* the limits search_cards is called with: shorter than the longest
\* response, as long, and the default
Limits == (1..MaxCandidates) \cup {search_limit}

\* the "data" lists of a response: each record at most once
CandidateLists ==
    { l \in UNION {[1..n -> Candidates] : n \in 0..MaxCandidates} :
        \A j, k \in 1..Len(l) : j # k => l[j] # l[k] }

MatchInit ==
    /\ Quiet
    /\ gate = <<>>
    /\ scanlog = <<>>
    /\ score = <<>>
    /\ rerank = <<>>
    /\ retried = <<>>
    /\ refindex = <<>>
    /\ store = <<>>
    /\ match \in [card_info : CardInfos, data : CandidateLists,
                   op : {"none"}, outcome : {"none"}, limit : {search_limit},
                   result : {[raised |-> FALSE, val |-> NoneV]}]

\* resolver._find_best_match(card_info, cards) on the parsed records
FindBestMatch ==
    /\ match.op = "none"
    /\ match' = [match EXCEPT
                   !.op = "_find_best_match",
                   !.result = [raised |-> FALSE,
                               val |-> _find_best_match(match.card_info,
                                                        ParsedCards(match.data))]]
    /\ UNCHANGED <<vars, gate, store, scanlog, score, rerank, retried, refindex>>

\* resolver.search_cards(query, limit) whose catalog request returns the
\* data or raises
SearchCardsCall ==
    /\ match.op = "none"
    /\ \E o \in {"returned", "raised"}, limit \in Limits :
          match' = [match EXCEPT
                      !.op = "search_cards",
                      !.outcome = o,
                      !.limit = limit,
                      !.result = search_cards_limit([outcome |-> o],
                                                    match.data, limit)]
    /\ UNCHANGED <<vars, gate, store, scanlog, score, rerank, retried, refindex>>

\* resolver.resolve_card(card_info) whose catalog request returns the data
\* or raises
ResolveCard ==
    /\ match.op = "none"
    /\ \E o \in {"returned", "raised"} :
          match' = [match EXCEPT
                      !.op = "resolve_card",
                      !.outcome = o,
                      !.result = resolve_card([outcome |-> o], match.data,
                                              match.card_info)]
    /\ UNCHANGED <<vars, gate, store, scanlog, score, rerank, retried, refindex>>

MatchNext == FindBestMatch \/ SearchCardsCall \/ ResolveCard

MatchSpec == MatchInit /\ [][MatchNext]_allvars

\* ----------------------------------------------------- the rate limit
\* number of coroutines that call the catalog clients
MaxCallers == 2
Callers == 1..MaxCallers

\* the ways a GET is issued: through the resolver object (search_cards, and
\* resolve_card by way of it), or through the module-level functions
GatedEntries == {"search_cards"}
FetchEntries == {"get_card", "search_by_number_name"}

\* a clock that only matters below min_request_interval
Later(e) == Advance(e, 1)
\* a timer one tenth later
Less(w) == IF w > 0 THEN w - 1 ELSE 0

IdleCaller == [pc |-> "idle", entry |-> "none", attempt |-> 0, wait |-> 0]

\* since_stamp: time since resolver.last_request_time; since_release: time
\* since _rate_limit last returned; since_get: time since the last GET was
\* sent.  The flags keep what has happened so far.
GateInit ==
    /\ Quiet
    /\ match = <<>>
    /\ scanlog = <<>>
    /\ score = <<>>
    /\ rerank = <<>>
    /\ retried = <<>>
    /\ refindex = <<>>
    /\ store = <<>>
    /\ gate = [callers |-> [c \in Callers |-> IdleCaller],
               since_stamp |-> min_request_interval,
               since_release |-> min_request_interval,
               since_get |-> min_request_interval,
               close_gets |-> FALSE,
               close_releases |-> FALSE,
               ungated |-> FALSE,
               solo |-> TRUE]

\* _rate_limit, lines 85-86: stamp last_request_time and return to the
\* caller c, which enters the loop of _request_with_backoff
Released(g, c) ==
    [g EXCEPT !.callers[c] = [pc |-> "loop", entry |-> "search_cards",
                              attempt |-> 0, wait |-> 0],
              !.since_stamp = 0,
              !.since_release = 0,
              !.close_releases = @ \/ g.since_release < min_request_interval]

\* _request_with_backoff up to the first suspension of _rate_limit: the
\* clock is read and compared; too soon, the caller sleeps for the rest of
\* the interval (and stamps when it wakes), else it stamps at once.
RateLimit(c) ==
    /\ gate.callers[c].pc = "idle"
    /\ LET g == [gate EXCEPT !.solo = @ /\ c = 1]
       IN gate' = IF gate.since_stamp < min_request_interval
                  THEN [g EXCEPT !.callers[c] =
                           [pc |-> "gate", entry |-> "search_cards",
                            attempt |-> 0,
                            wait |-> min_request_interval - gate.since_stamp]]
                  ELSE Released(g, c)
    /\ UNCHANGED <<vars, match, store, scanlog, score, rerank, retried, refindex>>

\* asyncio.sleep in _rate_limit is over
RateLimitWakes(c) ==
    /\ gate.callers[c].pc = "gate"
    /\ gate.callers[c].wait = 0
    /\ gate' = Released(gate, c)
    /\ UNCHANGED <<vars, match, store, scanlog, score, rerank, retried, refindex>>

\* get_card / search_by_number_name: straight into the loop of _fetch_json
Fetch(c) ==
    /\ gate.callers[c].pc = "idle"
    /\ \E e \in FetchEntries :
          gate' = [gate EXCEPT !.callers[c] =
                       [pc |-> "loop", entry |-> e, attempt |-> 0, wait |-> 0],
                               !.solo = @ /\ c = 1]
    /\ UNCHANGED <<vars, match, store, scanlog, score, rerank, retried, refindex>>

\* one GET of caller c's loop, sent once the delay before it is over, with
\* outcome r: the loop goes on to the next delay or ends
Get(c) ==
    /\ gate.callers[c].pc = "loop"
    /\ gate.callers[c].wait = 0
    /\ \E r \in GetOutcomes :
          LET me == gate.callers[c]
              what == IF me.entry \in GatedEntries
                      THEN request_with_backoff_step(me.attempt, r)
                      ELSE fetch_json_step(me.attempt, r)
          IN gate' = [gate EXCEPT
                        !.callers[c] =
                            IF what = "retry"
                            THEN [me EXCEPT !.attempt = @ + 1,
                                            !.wait = delay_before(me.attempt + 1)]
                            ELSE IdleCaller,
                        !.since_get = 0,
                        !.close_gets = @ \/ gate.since_get < min_request_interval,
                        !.ungated = @ \/ me.entry \notin GatedEntries]
    /\ UNCHANGED <<vars, match, store, scanlog, score, rerank, retried, refindex>>

\* a tenth of a second passes; a coroutine that is ready to run (its sleep
\* is over, or it has just been released and goes on to its GET) runs first
Tick ==
    /\ \A c \in Callers : gate.callers[c].pc = "idle" \/ gate.callers[c].wait > 0
    /\ gate' = [gate EXCEPT
                  !.callers = [c \in Callers |-> [@[c] EXCEPT !.wait = Less(@)]],
                  !.since_stamp = Later(@),
                  !.since_release = Later(@),
                  !.since_get = Later(@)]
    /\ UNCHANGED <<vars, match, store, scanlog, score, rerank, retried, refindex>>

GateNext ==
    \/ \E c \in Callers : RateLimit(c)
    \/ \E c \in Callers : RateLimitWakes(c)
    \/ \E c \in Callers : Fetch(c)
    \/ \E c \in Callers : Get(c)
    \/ Tick

GateSpec == GateInit /\ [][GateNext]_allvars

\* ------------------------------------------------------ the price cache
\* Python's float() on a decimal string, as a number of thousandths
Digits == <<"0", "1", "2", "3", "4", "5", "6", "7", "8", "9">>
DigitVal(ch) == (CHOOSE d \in 1..10 : Digits[d] = ch) - 1

RECURSIVE Number(_)
Number(s) ==
    IF s = <<>> THEN 0
    ELSE 10 * Number(SubSeq(s, 1, Len(s) - 1)) + DigitVal(s[Len(s)])

DotAt(s) ==
    IF \E k \in 1..Len(s) : s[k] = "."
    THEN CHOOSE k \in 1..Len(s) : s[k] = "." ELSE Len(s) + 1

Pow10(n) == IF n = 0 THEN 1 ELSE IF n = 1 THEN 10 ELSE IF n = 2 THEN 100 ELSE 1000

float(s) ==
    LET whole == SubSeq(s, 1, DotAt(s) - 1)
        frac == SubSeq(s, DotAt(s) + 1, Len(s))
    IN 1000 * Number(whole) + Number(frac) * Pow10(3 - Len(frac))

\* str() of a natural number
RECURSIVE DigitsOf(_)
DigitsOf(n) ==
    IF n < 10 THEN <<Digits[n + 1]>>
    ELSE Append(DigitsOf(n \div 10), Digits[(n % 10) + 1])

\* CacheManager._float_to_string: "" for NULL, else f"{float(value):.2f}"
\* (the amounts of the model have no tie at the third decimal)
_float_to_string(value) ==
    IF ~value.some THEN <<>>
    ELSE LET cents == (value.val + 5) \div 10
         IN DigitsOf(cents \div 100)
              \o <<".", Digits[((cents % 100) \div 10) + 1], Digits[(cents % 10) + 1]>>

\* A variant of upsert_prices that tests the parsed number, not the string:
\* a zero amount is stored as NULL.
stored_price_dropping_zero(x) ==
    IF Truthy(x) /\ float(x.val) # 0 THEN Some(float(x.val)) ELSE NoneV

\* upsert_prices, lines 196-211: float(x) if x else None
stored_price(x) == IF Truthy(x) THEN Some(float(x.val)) ELSE NoneV

\* json.dumps / json.loads of a list of strings
json_dumps(l) == <<"[">> \o l \o <<"]">>
json_loads(t) == SubSeq(t, 2, Len(t) - 1)

\* A variant of the read that puts the default in place of an empty list.
read_sources_defaulting(sources_json) ==
    IF sources_json.some /\ json_loads(sources_json.val) # <<>>
    THEN json_loads(sources_json.val) ELSE <<"pokemontcg.io">>

\* get_price_data_from_cache, lines 118-122: the decoded list unless the
\* column is NULL or the empty text
read_sources(sources_json) ==
    IF Truthy(sources_json) THEN json_loads(sources_json.val)
    ELSE <<"pokemontcg.io">>

\* the clock of the store stops here (in half hours)
MaxTime == 3
\* number of upsert_prices calls in a history
MaxWrites == 2
\* max_age_hours of a read
Windows == 0..2

\* A variant of the read without the cutoff in its WHERE clause.
fresh_whatever_the_age(updated_at, now, hours) == TRUE

\* WHERE p.updated_at > ? with cutoff = now - timedelta(hours=max_age_hours)
fresh(updated_at, now, hours) == updated_at > now - 2 * hours

StoreCardIds == {"c1", "c2"}
Sources == {"pokemontcg.io", "tcgplayer"}

\* card objects handed to upsert_card: two cards, one of them also under a
\* corrected name
CardOf(id, name) == [card_id |-> id, name |-> name]
StoreCards ==
    { CardOf("c1", "Charizard"), CardOf("c1", "Charizard EX"),
      CardOf("c2", "Charizard") }

\* PriceData objects handed to upsert_prices
PriceDataOf(a, b, c, ta, tb, srcs) ==
    [tcgplayer_market_usd |-> a, cardmarket_trend_eur |-> b,
     cardmarket_avg30_eur |-> c, pricing_updatedAt_tcgplayer |-> ta,
     pricing_updatedAt_cardmarket |-> tb, price_sources |-> srcs]
PriceDatas ==
    { \* what the pricer produces: two decimals, "" for an absent amount
      PriceDataOf(Some(<<"1", "2", ".", "5", "0">>), Some(<<"0", ".", "0", "0">>),
                  Some(<<>>), <<"2023/12/01">>, <<>>,
                  <<"pokemontcg.io", "manual_entry">>),
      \* amounts written short, an empty list of sources
      PriceDataOf(Some(<<"1", "2", ".", "5">>), Some(<<"0">>), NoneV,
                  <<>>, <<"2023/12/01">>, <<>>),
      \* nothing known
      PriceDataOf(NoneV, NoneV, NoneV, <<>>, <<>>, <<>>),
      \* an amount with three decimals
      PriceDataOf(Some(<<"1", ".", "2", "3", "4">>), Some(<<>>), Some(<<>>),
                  <<>>, <<>>, <<"pokemontcg.io">>) }

NoRow == [present |-> FALSE]
NoRead == [done |-> FALSE]
NoWrite == [some |-> FALSE]

\* A variant of the INSERT that keeps the row already stored under the key.
insert_price_beside(table, row) == table \cup {row}

\* INSERT OR REPLACE INTO cards, PRIMARY KEY card_id: a row with the same
\* key is deleted before the new one is inserted
replace_card(table, row) ==
    {r \in table : r.card_id # row.card_id} \cup {row}

\* INSERT OR REPLACE INTO prices, PRIMARY KEY(card_id, source)
replace_price(table, row) ==
    {r \in table : r.card_id # row.card_id \/ r.source # row.source} \cup {row}

\* the card ids that have a cards row
CardRowIds(st) == {r.card_id : r \in st.cards}

CacheInit ==
    /\ Quiet
    /\ gate = <<>>
    /\ scanlog = <<>>
    /\ score = <<>>
    /\ rerank = <<>>
    /\ retried = <<>>
    /\ refindex = <<>>
    /\ match = <<>>
    /\ store = [cards |-> {},
                prices |-> {},
                now |-> 0,
                writes |-> 0,
                last |-> NoWrite,
                last_card |-> NoWrite,
                read |-> NoRead]

\* cache.upsert_card(card): INSERT OR REPLACE INTO cards, created_at being
\* the time of the call
UpsertCard(card) ==
    /\ store.now < MaxTime
    /\ store' = [store EXCEPT
                   !.cards = replace_card(@, [card_id |-> card.card_id,
                                              name |-> card.name,
                                              created_at |-> store.now]),
                   !.last_card = [some |-> TRUE, card |-> card, at |-> store.now],
                   !.now = @ + 1,
                   !.read = NoRead]
    /\ UNCHANGED <<vars, gate, match, scanlog, score, rerank, retried, refindex>>

\* cache.upsert_prices(card_id, price_data, source): INSERT OR REPLACE INTO
\* prices, stamped with the time of the call; `written` remembers the
\* object the row was made from.  The clock is later at every later call.
UpsertPrices(c, pd, src) ==
    /\ store.now < MaxTime
    /\ store.writes < MaxWrites
    /\ store' = [store EXCEPT
                   !.writes = @ + 1,
                   !.prices = replace_price(@,
                       [present |-> TRUE,
                        card_id |-> c,
                        source |-> src,
                        updated_at |-> store.now,
                        tcgplayer_market_usd |-> stored_price(pd.tcgplayer_market_usd),
                        cardmarket_trend_eur |-> stored_price(pd.cardmarket_trend_eur),
                        cardmarket_avg30_eur |-> stored_price(pd.cardmarket_avg30_eur),
                        pricing_updatedAt_tcgplayer |-> pd.pricing_updatedAt_tcgplayer,
                        pricing_updatedAt_cardmarket |-> pd.pricing_updatedAt_cardmarket,
                        sources_json |-> Some(json_dumps(pd.price_sources)),
                        written |-> pd]),
                   !.last = [some |-> TRUE, card_id |-> c, source |-> src,
                             price_data |-> pd, at |-> store.now],
                   !.now = @ + 1,
                   !.read = NoRead]
    /\ UNCHANGED <<vars, gate, match, scanlog, score, rerank, retried, refindex>>

\* the PriceData object the read builds from a row
PriceDataFromRow(row) ==
    PriceDataOf(Some(_float_to_string(row.tcgplayer_market_usd)),
                Some(_float_to_string(row.cardmarket_trend_eur)),
                Some(_float_to_string(row.cardmarket_avg30_eur)),
                row.pricing_updatedAt_tcgplayer,
                row.pricing_updatedAt_cardmarket,
                read_sources(row.sources_json))

\* A variant of the SELECT that reads the prices table alone, without the
\* JOIN on cards.
rows_selected_without_join(st, c, hours) ==
    { r \in st.prices : /\ r.card_id = c
                        /\ fresh(r.updated_at, st.now, hours) }

\* the rows the SELECT of get_price_data_from_cache yields: the prices rows
\* of the card, joined with its cards row, newer than the cutoff
SelectedRows(st, c, hours) ==
    { r \in st.prices : /\ r.card_id = c
                        /\ c \in CardRowIds(st)
                        /\ fresh(r.updated_at, st.now, hours) }

\* cache.get_price_data_from_cache(card_id, max_age_hours): the newest of
\* the selected rows (ORDER BY updated_at DESC LIMIT 1), or none
GetPriceData(c, hours) ==
    /\ LET sel == SelectedRows(store, c, hours)
           newest == { k \in sel : \A j \in sel : j.updated_at <= k.updated_at }
       IN IF sel = {}
          THEN store' = [store EXCEPT
                           !.read = [done |-> TRUE, card_id |-> c, hours |-> hours,
                                     result |-> NoneV, row |-> NoRow]]
          ELSE \E k \in newest :
                 store' = [store EXCEPT
                             !.read = [done |-> TRUE, card_id |-> c, hours |-> hours,
                                       result |-> Some(PriceDataFromRow(k)),
                                       row |-> k]]
    /\ UNCHANGED <<vars, gate, match, scanlog, score, rerank, retried, refindex>>

\* half an hour passes
HalfHour ==
    /\ store.now < MaxTime
    /\ store' = [store EXCEPT !.now = @ + 1, !.read = NoRead]
    /\ UNCHANGED <<vars, gate, match, scanlog, score, rerank, retried, refindex>>

CacheNext ==
    \/ \E card \in StoreCards : UpsertCard(card)
    \/ \E c \in StoreCardIds, pd \in PriceDatas, src \in Sources : UpsertPrices(c, pd, src)
    \/ \E c \in StoreCardIds, hours \in Windows : GetPriceData(c, hours)
    \/ HalfHour

CacheSpec == CacheInit /\ [][CacheNext]_allvars

\* ------------------------------------------------------- the scans table
\* the clock of the scans table stops here: every call is later than the
\* one before
MaxScanTime == 4
\* number of insert_scan calls in a history
MaxInserts == 2

\* json.dumps / json.loads of a dict
json_dumps_dict(d) == <<"{">> \o d \o <<"}">>
json_loads_dict(t) == SubSeq(t, 2, Len(t) - 1)

\* the arguments of insert_scan: no extracted fields, an empty dict, a dict
NameOnly == <<<<"name", "Ab">>>>
InsertArgs ==
    { [image_path |-> "scan_0.jpg", ocr_data |-> NoneV],
      [image_path |-> "scan_0.jpg", ocr_data |-> Some(<<>>)],
      [image_path |-> "scan_1.jpg", ocr_data |-> Some(NameOnly)] }

\* the arguments of update_scan_status: statuses the pipeline writes, NEW
\* again, and the status tests/test_cache.py writes
UpdateArgs ==
    { [status |-> "ERROR", ocr_data |-> NoneV],
      [status |-> "NEW", ocr_data |-> NoneV],
      [status |-> "PROCESSED", ocr_data |-> NoneV],
      [status |-> "COMPLETED", ocr_data |-> Some(NameOnly)] }

\* A variant of insert_scan that stores no extracted fields.
stored_ocr_dropped(ocr_data) == NoneV

\* insert_scan: json.dumps(ocr_data) if ocr_data else None
stored_ocr(ocr_data) ==
    IF Truthy(ocr_data) THEN Some(json_dumps_dict(ocr_data.val)) ELSE NoneV

\* get_new_scans: json.loads(row["ocr_json"]) if row["ocr_json"] else {}
loaded_ocr(ocr_json) ==
    IF Truthy(ocr_json) THEN json_loads_dict(ocr_json.val) ELSE <<>>

\* A variant of update_scan_status that does not look at the row count.
no_scan_found_ignored(rows, scan_id) == FALSE

\* update_scan_status: result.rowcount == 0
no_scan_found(rows, scan_id) == ~\E r \in rows : r.id = scan_id

\* A variant of the UPDATE that loses the row it was to change.
updated_rows_dropping(rows, scan_id, status, ocr_data, now) ==
    {r \in rows : r.id # scan_id}

\* UPDATE scans SET status = ?, [ocr_json = ?,] ts = ? WHERE id = ?
updated_rows(rows, scan_id, status, ocr_data, now) ==
    { IF r.id # scan_id THEN r
      ELSE [r EXCEPT !.status = status,
                     !.ts = now,
                     !.ocr_json = IF ocr_data.some
                                  THEN Some(json_dumps_dict(ocr_data.val))
                                  ELSE @] : r \in rows }

\* ORDER BY ts: the rows in the order of their ts (no two rows share one)
RECURSIVE by_ts(_)
by_ts(rows) ==
    IF rows = {} THEN <<>>
    ELSE LET first == CHOOSE r \in rows : \A q \in rows : r.ts <= q.ts
         IN <<first>> \o by_ts(rows \ {first})

\* the list get_new_scans builds: SELECT * FROM scans WHERE status = 'NEW'
\* ORDER BY ts
new_scans(rows) ==
    LET sel == by_ts({r \in rows : r.status = "NEW"})
    IN [k \in 1..Len(sel) |->
           [id |-> sel[k].id, ts |-> sel[k].ts,
            image_path |-> sel[k].image_path,
            ocr_data |-> loaded_ocr(sel[k].ocr_json),
            status |-> sel[k].status]]

NoCall == [op |-> "none"]

\* rows: the scans table (created: when the row was inserted, which no
\* column keeps); seq: the AUTOINCREMENT counter; returned: the ids
\* insert_scan has handed out; last: the last call and what it gave.
ScanInit ==
    /\ Quiet
    /\ gate = <<>>
    /\ match = <<>>
    /\ store = <<>>
    /\ score = <<>>
    /\ rerank = <<>>
    /\ retried = <<>>
    /\ refindex = <<>>
    /\ scanlog = [rows |-> {}, seq |-> 0, now |-> 0, returned |-> {},
                  last |-> NoCall]

\* cache.insert_scan(image_path, ocr_data)
InsertScan(a) ==
    /\ scanlog.now < MaxScanTime
    /\ scanlog.seq < MaxInserts
    /\ scanlog' = [scanlog EXCEPT
          !.rows = @ \cup {[id |-> scanlog.seq + 1,
                            ts |-> scanlog.now,
                            created |-> scanlog.now,
                            image_path |-> a.image_path,
                            ocr_json |-> stored_ocr(a.ocr_data),
                            status |-> "NEW"]},
          !.seq = @ + 1,
          !.now = @ + 1,
          !.returned = @ \cup {scanlog.seq + 1},
          !.last = [op |-> "insert_scan", id |-> scanlog.seq + 1,
                    image_path |-> a.image_path, ocr_data |-> a.ocr_data]]
    /\ UNCHANGED <<vars, gate, match, store, score, rerank, retried, refindex>>

\* cache.update_scan_status(scan_id, status, ocr_data): ValueError, and
\* nothing committed, when no row has the id
UpdateScanStatus(scan_id, a) ==
    /\ scanlog.now < MaxScanTime
    /\ scanlog' = [scanlog EXCEPT
          !.rows = IF no_scan_found(scanlog.rows, scan_id) THEN @
                   ELSE updated_rows(@, scan_id, a.status, a.ocr_data,
                                     scanlog.now),
          !.now = @ + 1,
          !.last = [op |-> "update_scan_status", scan_id |-> scan_id,
                    status |-> a.status,
                    raised |-> no_scan_found(scanlog.rows, scan_id)]]
    /\ UNCHANGED <<vars, gate, match, store, score, rerank, retried, refindex>>

\* cache.get_new_scans()
GetNewScans ==
    /\ scanlog' = [scanlog EXCEPT
          !.last = [op |-> "get_new_scans", result |-> new_scans(scanlog.rows)]]
    /\ UNCHANGED <<vars, gate, match, store, score, rerank, retried, refindex>>

ScanNext ==
    \/ \E a \in InsertArgs : InsertScan(a)
    \/ \E scan_id \in 1..(MaxInserts + 1), a \in UpdateArgs :
          UpdateScanStatus(scan_id, a)
    \/ GetNewScans

ScanSpec == ScanInit /\ [][ScanNext]_allvars

\* ------------------------------------------------------ match confidence
\* A Python float is an IEEE 754 binary64 number. It is kept here as a
\* sign, a significand of Precision bits (a sequence of 0 and 1, lowest
\* bit first, the highest bit 1; the empty sequence for zero) and the
\* exponent of the lowest bit: the value is m * 2^e. Every operation gives
\* the exact result rounded to the nearest float, ties to even.
Precision == 53
\* limbs kept below the binary point in a quotient before it is rounded
FractionLimbs == 4

Larger(a, b) == IF a >= b THEN a ELSE b
Smaller(a, b) == IF a <= b THEN a ELSE b

Bit(a, k) == IF k \in 1..Len(a) THEN a[k] ELSE 0
Zeros(n) == [k \in 1..n |-> 0]

\* the position of the highest 1 (0 when there is none)
BitLen(a) ==
    IF \E k \in 1..Len(a) : a[k] = 1
    THEN CHOOSE k \in 1..Len(a) :
             a[k] = 1 /\ \A j \in (k + 1)..Len(a) : a[j] = 0
    ELSE 0

\* whole numbers are added and multiplied in limbs of LimbBits bits
LimbBits == 16

RECURSIVE Pow2(_)
Pow2(t) == IF t = 0 THEN 1 ELSE 2 * Pow2(t - 1)

\* the bits of a sequence of limbs, lowest limb first
ToBits(limbs) ==
    [p \in 1..(LimbBits * Len(limbs)) |->
        (limbs[(p - 1) \div LimbBits + 1] \div Pow2((p - 1) % LimbBits)) % 2]

\* columns of small numbers (column k counts 2^(k-1)) gathered into limbs
RECURSIVE PackedLimb(_, _, _)
PackedLimb(cols, l, t) ==
    IF t = LimbBits THEN 0
    ELSE Bit(cols, LimbBits * (l - 1) + t + 1) * Pow2(t)
            + PackedLimb(cols, l, t + 1)

Packed(cols) ==
    [l \in 1..((Len(cols) + LimbBits - 1) \div LimbBits) |->
        PackedLimb(cols, l, 0)]

\* carry from the lowest limb up
RECURSIVE CarriedLimbs(_, _, _, _)
CarriedLimbs(limbs, l, carry, acc) ==
    IF l > Len(limbs)
    THEN IF carry = 0 THEN acc ELSE Append(acc, carry)
    ELSE CarriedLimbs(limbs, l + 1, (limbs[l] + carry) \div Pow2(LimbBits),
                      Append(acc, (limbs[l] + carry) % Pow2(LimbBits)))

\* the bits of the number that the columns add up to
Carried(cols) == ToBits(CarriedLimbs(Packed(cols), 1, 0, <<>>))

AddBits(a, b) ==
    Carried([k \in 1..Larger(Len(a), Len(b)) |-> Bit(a, k) + Bit(b, k)])

\* a - b for a >= b: a plus the complement of b plus one, the carry out
\* dropped
SubBits(a, b) ==
    LET n == Larger(Len(a), Len(b))
    IN SubSeq(Carried([k \in 1..n |-> Bit(a, k) + 1 - Bit(b, k)
                                        + IF k = 1 THEN 1 ELSE 0]),
              1, n)

MulBits(a, b) ==
    IF a = <<>> \/ b = <<>> THEN <<>>
    ELSE Carried([k \in 1..(Len(a) + Len(b) - 1) |->
                     Cardinality({j \in 1..Len(a) :
                                     a[j] = 1 /\ Bit(b, k + 1 - j) = 1})])

LessBits(a, b) ==
    \E k \in 1..Larger(Len(a), Len(b)) :
        /\ Bit(a, k) < Bit(b, k)
        /\ \A j \in (k + 1)..Larger(Len(a), Len(b)) : Bit(a, j) = Bit(b, j)

Zero == [neg |-> FALSE, m |-> <<>>, e |-> 0]

\* the float nearest to bits * 2^e (plus less than one unit of the lowest
\* bit when sticky), ties to the even significand
Rounded(bits, e, sticky) ==
    LET n == BitLen(bits)
    IN IF n = 0 THEN Zero
       ELSE IF n <= Precision
       THEN [neg |-> FALSE,
             m |-> Zeros(Precision - n) \o SubSeq(bits, 1, n),
             e |-> e - (Precision - n)]
       ELSE LET drop == n - Precision
                kept == SubSeq(bits, drop + 1, n)
                half == bits[drop] = 1
                rest == sticky \/ \E j \in 1..(drop - 1) : bits[j] = 1
                up == half /\ (rest \/ kept[1] = 1)
                inc == IF up THEN AddBits(kept, <<1>>) ELSE kept
            IN IF BitLen(inc) > Precision
               THEN [neg |-> FALSE, m |-> SubSeq(inc, 2, Precision + 1),
                     e |-> e + drop + 1]
               ELSE [neg |-> FALSE, m |-> SubSeq(inc, 1, Precision),
                     e |-> e + drop]

\* the limbs of floor(rem * 2^(LimbBits * k) / den) below acc, and whether
\* anything is left (rem < den, and den is small)
RECURSIVE QuotLimbs(_, _, _, _)
QuotLimbs(rem, den, k, acc) ==
    IF k = 0 THEN [limbs |-> acc, sticky |-> rem # 0]
    ELSE QuotLimbs((rem * Pow2(LimbBits)) % den, den, k - 1,
                   <<(rem * Pow2(LimbBits)) \div den>> \o acc)

\* the float nearest to num / den: a decimal literal such as 0.85 = 85/100,
\* and the float division of two whole numbers
Quotient(num, den) ==
    LET q == QuotLimbs(num % den, den, FractionLimbs, <<num \div den>>)
    IN Rounded(ToBits(q.limbs), -(LimbBits * FractionLimbs), q.sticky)

One == Quotient(1, 1)

\* the significand of x with its lowest bit at exponent e
Aligned(x, e) == Zeros(x.e - e) \o x.m

\* x < y, x + y, x - y and x * y for floats that are not negative
FloatLess(x, y) ==
    LessBits(Aligned(x, Smaller(x.e, y.e)), Aligned(y, Smaller(x.e, y.e)))

Plus(x, y) ==
    Rounded(AddBits(Aligned(x, Smaller(x.e, y.e)),
                    Aligned(y, Smaller(x.e, y.e))),
            Smaller(x.e, y.e), FALSE)

Minus(x, y) ==
    LET e == Smaller(x.e, y.e)
    IN IF LessBits(Aligned(x, e), Aligned(y, e))
       THEN [Rounded(SubBits(Aligned(y, e), Aligned(x, e)), e, FALSE)
                EXCEPT !.neg = TRUE]
       ELSE Rounded(SubBits(Aligned(x, e), Aligned(y, e)), e, FALSE)

Times(x, y) == Rounded(MulBits(x.m, y.m), x.e + y.e, FALSE)

\* max(0.0, x) and min(1.0, x)
max_0(x) == IF x.neg \/ x.m = <<>> THEN Zero ELSE x
min_1(x) == IF FloatLess(x, One) THEN x ELSE One

\* A variant of the inlier score that is not capped at 60 inliers.
i_score_uncapped(inliers) == Quotient(inliers, 60)

\* A variant of the distance score that grows with the distance.
d_score_as_distance(distance) == min_1(distance)

\* score.confidence_from(distance, inliers): distance a float, inliers a
\* whole number
d_score(distance) == max_0(Minus(One, distance))
i_score(inliers) == min_1(Quotient(inliers, 60))
confidence_from(distance, inliers) ==
    Plus(Times(Quotient(6, 10), d_score(distance)),
         Times(Quotient(4, 10), i_score(inliers)))

\* CONFIDENCE_ACCEPT = 0.85 and CONFIDENCE_REVIEW = 0.70
CONFIDENCE_ACCEPT == Quotient(85, 100)
CONFIDENCE_REVIEW == Quotient(70, 100)

\* the decision taken on a confidence: accept >= 0.85, review in
\* [0.70, 0.85), reject < 0.70
decision_of(confidence) ==
    IF ~FloatLess(confidence, CONFIDENCE_ACCEPT) THEN "accept"
    ELSE IF ~FloatLess(confidence, CONFIDENCE_REVIEW) THEN "review"
    ELSE "reject"

\* distances are the floats 0.0, 0.05, 0.1, ... (steps / 20.0), inliers the
\* whole numbers 0, 6, 12, ...
MaxDistanceSteps == 40
MaxInlierSteps == 11
DistanceOf(steps) == Quotient(steps, 20)
InliersOf(steps) == 6 * steps

ScoreInit ==
    /\ Quiet
    /\ gate = <<>>
    /\ match = <<>>
    /\ store = <<>>
    /\ scanlog = <<>>
    /\ rerank = <<>>
    /\ retried = <<>>
    /\ refindex = <<>>
    /\ \E d \in 0..MaxDistanceSteps, n \in 0..MaxInlierSteps :
          score = [pc |-> "input", distance |-> d, inliers |-> InliersOf(n),
                   confidence |-> Zero, farther |-> Zero, more |-> Zero,
                   decision |-> "none"]

\* confidence_from is called on the input, on the next distance with the
\* same inliers, and on the same distance with the next number of inliers
ConfidenceFrom ==
    /\ score.pc = "input"
    /\ score' = [score EXCEPT
          !.pc = "scored",
          !.confidence =
              confidence_from(DistanceOf(score.distance), score.inliers),
          !.farther =
              confidence_from(DistanceOf(score.distance + 1), score.inliers),
          !.more =
              confidence_from(DistanceOf(score.distance),
                              score.inliers + InliersOf(1))]
    /\ UNCHANGED <<vars, gate, match, store, scanlog, rerank, retried, refindex>>

\* the accept / review / reject policy decides on the confidence
Decide ==
    /\ score.pc = "scored"
    /\ score' = [score EXCEPT !.pc = "decided",
                              !.decision = decision_of(score.confidence)]
    /\ UNCHANGED <<vars, gate, match, store, scanlog, rerank, retried, refindex>>

ScoreNext == ConfidenceFrom \/ Decide

ScoreSpec == ScoreInit /\ [][ScoreNext]_allvars

\* --------------------------------------------------- resolver operations
\* a catalog request that was answered
Answered == [outcome |-> "returned"]

\* C11 (as stated): when the catalog request has failed terminally, what
\* search_cards and resolve_card hand to their caller differs from what
\* they hand over for a valid answer with no card in it.
C11_FailureTellsApartFromNoMatch ==
    (pc = "resolved" /\ req.outcome = "raised")
        => /\ search_cards(req, <<>>) # search_cards(Answered, <<>>)
           /\ resolve_card(req, <<>>, batch[i].fields)
                 # resolve_card(Answered, <<>>, batch[i].fields)

\* the candidate's catalog number equals the extracted numerator
NumberAgrees(card_info, c) ==
    card_info.collector_number.some
        /\ c.number = <<card_info.collector_number.val[1]>>

\* case-insensitive name similarity, 0..10000
NameSimilarity(card_info, c) ==
    fuzz_ratio(Lower(card_info.name.val), Lower(c.name))

\* The normalized score of a candidate, in hundredths of a percent, with
\* the recency part granted in full to every dated candidate (the most a
\* candidate can score): 40 for the number, up to 40 for the name, 20 for
\* the date, over the sum of the weights that apply.
ScoreAtMost(card_info, c) ==
    LET wnum == IF card_info.collector_number.some THEN 40 ELSE 0
        wname == IF Truthy(card_info.name) THEN 40 ELSE 0
        wdate == IF c.set_release_date.some THEN 20 ELSE 0
        got == (IF NumberAgrees(card_info, c) THEN 4000 ELSE 0)
                 + (IF wname > 0
                    THEN (40 * NameSimilarity(card_info, c)) \div 100 ELSE 0)
                 + 100 * wdate
    IN IF wnum + wname + wdate = 0 THEN 0
       ELSE (100 * got) \div (wnum + wname + wdate)

\* the operation returned a card
Matched ==
    /\ match.op \in {"_find_best_match", "resolve_card"}
    /\ match.result.val.some

\* C15 (as stated): _find_best_match, and resolve_card built on it, return
\* a candidate only if its normalized score is strictly above 60.
C15_ReturnedScoresAbove60 ==
    Matched => ScoreAtMost(match.card_info, match.result.val.val) > 60 * 100

\* _find_best_match was given a name, a number and two candidates
TwoCandidates ==
    /\ match.op = "_find_best_match"
    /\ Len(ParsedCards(match.data)) = 2
    /\ Truthy(match.card_info.name)
    /\ match.card_info.collector_number.some
    /\ NameSimilarity(match.card_info, ParsedCards(match.data)[1])
         = NameSimilarity(match.card_info, ParsedCards(match.data)[2])

\* C16 (as stated): of two candidates with equal name similarity of which
\* exactly one has the extracted numerator as its catalog number,
\* _find_best_match selects that one, in either order of the list.
C16_ExactNumberWinsInAnyOrder ==
    \A k \in 1..2 :
        (/\ TwoCandidates
         /\ NumberAgrees(match.card_info, ParsedCards(match.data)[k])
         /\ ~NumberAgrees(match.card_info, ParsedCards(match.data)[3 - k]))
            => match.result.val = Some(ParsedCards(match.data)[k])

\* C17 (as stated): two candidates that agree in number match and in name
\* similarity are ordered by release date, not by list position: the one
\* from the newer set is returned.
C17_NewerSetBreaksTie ==
    \A k \in 1..2 :
        (/\ TwoCandidates
         /\ NumberAgrees(match.card_info, ParsedCards(match.data)[k])
              = NumberAgrees(match.card_info, ParsedCards(match.data)[3 - k])
         /\ ParsedCards(match.data)[k].set_release_date.val
              > ParsedCards(match.data)[3 - k].set_release_date.val)
            => match.result.val = Some(ParsedCards(match.data)[k])

\* -------------------------------------------------------- the rate limit
\* C12 (as stated): for a single worker that sends its requests one after
\* another through the resolver, no two consecutive GETs, retries
\* included, are sent less than min_request_interval apart.
C12_SingleWorkerGetsSpaced ==
    (gate.solo /\ ~gate.ungated) => ~gate.close_gets

\* C13 (as stated): in every interleaving of concurrent callers, no two
\* callers are released by _rate_limit less than min_request_interval
\* apart.
C13_ReleasesSpaced == ~gate.close_releases

\* C14 (as stated): every GET that is sent has passed the resolver's gate,
\* whichever entry point issued it.
C14_EveryGetPassesTheGate == ~gate.ungated

\* -------------------------------------------------------- the price cache
PriceFields ==
    {"tcgplayer_market_usd", "cardmarket_trend_eur", "cardmarket_avg30_eur"}

\* an amount is absent (None or "") or a number
IsAbsent(x) == ~Truthy(x)
IsZero(x) == Truthy(x) /\ float(x.val) = 0
Amount(x) == IF Truthy(x) THEN Some(float(x.val)) ELSE NoneV

\* the card of the read has a prices row
HasPriceRow(c) == \E r \in store.prices : r.card_id = c

\* C18: a read never returns a snapshot whose updated_at is older than
\* now - H, returns none when the card has no prices row, and returns none
\* for H = 0, whatever was written before.
C18_NeverReturnsStale ==
    store.read.done =>
        /\ store.read.result.some
             => store.read.row.updated_at >= store.now - 2 * store.read.hours
        /\ ~HasPriceRow(store.read.card_id) => ~store.read.result.some
        /\ store.read.hours = 0 => ~store.read.result.some

\* a read of a card with a cards row found only a prices row that is too
\* old for its window
C18_Witness ==
    /\ store.read.done
    /\ store.read.hours > 0
    /\ store.read.card_id \in CardRowIds(store)
    /\ HasPriceRow(store.read.card_id)
    /\ ~store.read.result.some

\* the read that follows the last upsert_prices asks for the card written,
\* with a window that reaches back beyond the write
ReadsLastWrite ==
    /\ store.read.done
    /\ store.last.some
    /\ store.last.card_id = store.read.card_id
    /\ store.last.at > store.now - 2 * store.read.hours

\* the read returned pd's amounts, timestamps and sources
Returned(pd) ==
    /\ store.read.result.some
    /\ \A f \in PriceFields : Amount(store.read.result.val[f]) = Amount(pd[f])
    /\ store.read.result.val.pricing_updatedAt_tcgplayer
         = pd.pricing_updatedAt_tcgplayer
    /\ store.read.result.val.pricing_updatedAt_cardmarket
         = pd.pricing_updatedAt_cardmarket
    /\ store.read.result.val.price_sources = pd.price_sources

TwoDecimals(pd) ==
    \A f \in PriceFields :
        Truthy(pd[f]) => Len(pd[f].val) - DotAt(pd[f].val) <= 2

CardRowsOf(st, id) == {r \in st.cards : r.card_id = id}
PriceRowsOf(st, id, src) == {r \in st.prices : r.card_id = id /\ r.source = src}

C21_OneRowPerKey ==
    /\ \A id \in StoreCardIds : Cardinality(CardRowsOf(store, id)) <= 1
    /\ \A id \in StoreCardIds, src \in Sources :
           Cardinality(PriceRowsOf(store, id, src)) <= 1

\* what a step that is an upsert_prices call does to the tables
C21_PriceWrite ==
    store'.writes # store.writes =>
        LET w == store'.last
        IN /\ \E r \in PriceRowsOf(store', w.card_id, w.source) :
                  r.written = w.price_data /\ r.updated_at = w.at
           /\ \A old \in PriceRowsOf(store, w.card_id, w.source) :
                  old.written = w.price_data
                      => PriceRowsOf(store', w.card_id, w.source)
                           = {[old EXCEPT !.updated_at = w.at]}
           /\ \A id \in StoreCardIds, src \in Sources :
                  (id # w.card_id \/ src # w.source)
                      => PriceRowsOf(store', id, src) = PriceRowsOf(store, id, src)
           /\ store'.cards = store.cards

\* what a step that is an upsert_card call does to the tables
C21_CardWrite ==
    store'.last_card # store.last_card =>
        LET w == store'.last_card
        IN /\ CardRowsOf(store', w.card.card_id)
                = {[card_id |-> w.card.card_id, name |-> w.card.name,
                    created_at |-> w.at]}
           /\ \A id \in StoreCardIds :
                  id # w.card.card_id
                      => CardRowsOf(store', id) = CardRowsOf(store, id)
           /\ store'.prices = store.prices

\* C21: after any sequence of upsert_card and upsert_prices calls there is
\* at most one card row per card_id and one price row per (card_id,
\* source); a write makes the row of its key equal to what was written,
\* a repeated identical write changes only the timestamp, and every other
\* row (other sources included) is left as it was.
C21_LastWriteWinsPerKey ==
    /\ []C21_OneRowPerKey
    /\ [][C21_PriceWrite /\ C21_CardWrite]_allvars

\* a key of the prices table was written twice, beside a card row
C21_Witness ==
    /\ store.writes >= 2
    /\ Cardinality(store.prices) = 1
    /\ Cardinality(store.cards) = 1

\* ------------------------------------------------- the batch run's cache
\* the run is at a scan whose extracted fields are those of every scan
\* before it in the batch, a card and its prices are in the cache from one
\* of those, and this scan has written nothing yet
SeenBefore ==
    /\ i \in 2..Len(batch)
    /\ cur.id = batch[i].id
    /\ \A j \in 1..(i - 1) : batch[j].fields = batch[i].fields
    /\ ~cur.card_written
    /\ ~cur.price_written
    /\ cards \cap prices # {}

\* C27 (as stated): a scan whose extracted name and number were resolved
\* and cached for an earlier scan takes its prices from the cache: no
\* catalog request is sent for it.
C27_SameFieldsServedFromCache == SeenBefore => ~cur.requested

\* ------------------------------------------------------- the scans table
\* what a call of insert_scan passed as extracted fields: None and the
\* empty dict both say that nothing was extracted
FieldsOf(ocr_data) == IF ocr_data.some THEN ocr_data.val ELSE <<>>

ScanRowIds(rows) == {r.id : r \in rows}

\* the last call was an insert_scan: its row has status NEW, and
\* get_new_scans lists it with the image path and the fields of the call
C22_InsertedIsNew ==
    scanlog.last.op = "insert_scan" =>
        /\ \E r \in scanlog.rows :
              r.id = scanlog.last.id /\ r.status = "NEW"
        /\ \E k \in DOMAIN new_scans(scanlog.rows) :
              LET d == new_scans(scanlog.rows)[k]
              IN /\ d.id = scanlog.last.id
                 /\ d.status = "NEW"
                 /\ d.image_path = scanlog.last.image_path
                 /\ d.ocr_data = FieldsOf(scanlog.last.ocr_data)

\* a call of insert_scan returns an id no call returned before, and adds
\* one row
C22_FreshId ==
    scanlog'.seq # scanlog.seq =>
        /\ scanlog'.last.op = "insert_scan"
        /\ scanlog'.last.id \notin scanlog.returned
        /\ scanlog'.last.id \notin ScanRowIds(scanlog.rows)
        /\ Cardinality(scanlog'.rows) = Cardinality(scanlog.rows) + 1

\* C22: insert_scan creates a new scan with status NEW and returns an id
\* different from every id returned before; the new scan appears in
\* get_new_scans with the image path and the extracted fields it was
\* inserted with (no fields read back as the empty dict).
C22_InsertCreatesNewScan ==
    /\ []C22_InsertedIsNew
    /\ [][C22_FreshId]_allvars

\* a second scan was inserted with extracted fields, after a first one
C22_Witness ==
    /\ scanlog.last.op = "insert_scan"
    /\ scanlog.last.id = 2
    /\ scanlog.last.ocr_data = Some(NameOnly)
    /\ Cardinality(scanlog.rows) = 2

\* a step that is a call of update_scan_status with an id no row has
UpdateOfMissing ==
    /\ scanlog'.now # scanlog.now
    /\ scanlog'.last.op = "update_scan_status"
    /\ scanlog'.last.scan_id \notin ScanRowIds(scanlog.rows)

C23_MissingRaises ==
    UpdateOfMissing => scanlog'.last.raised /\ scanlog'.rows = scanlog.rows

\* C23: update_scan_status called with a scan_id that does not exist
\* raises an error and leaves every existing scan record unchanged.
C23_UpdateOfMissingScanRaises == [][C23_MissingRaises]_allvars

\* update_scan_status raised for an id no row has, with a scan in the table
C23_Witness ==
    /\ scanlog.last.op = "update_scan_status"
    /\ scanlog.last.raised
    /\ scanlog.last.scan_id \notin ScanRowIds(scanlog.rows)
    /\ scanlog.rows # {}

\* when the scan with this id was inserted
CreatedAt(rows, id) == (CHOOSE r \in rows : r.id = id).created

\* C24 (as stated): get_new_scans returns exactly the scans whose status
\* is NEW, ordered by creation time oldest first, for any history of
\* inserts and status updates (a scan set back to NEW included).
C24_NewScansOldestFirst ==
    scanlog.last.op = "get_new_scans" =>
        LET result == scanlog.last.result
        IN /\ {result[k].id : k \in DOMAIN result}
                 = {r.id : r \in {q \in scanlog.rows : q.status = "NEW"}}
           /\ Len(result)
                 = Cardinality({q \in scanlog.rows : q.status = "NEW"})
           /\ \A j, k \in DOMAIN result :
                 j < k => CreatedAt(scanlog.rows, result[j].id)
                             < CreatedAt(scanlog.rows, result[k].id)

\* C25 (as stated): in every reachable state of the cache, each scan's
\* status is one of NEW, COMPLETED, SKIPPED, NO_MATCH, ERROR.
C25_StatusInTheFive == \A r \in scanlog.rows : r.status \in STATUSES

C26_RowsKept ==
    \A r \in scanlog.rows :
        /\ Cardinality({q \in scanlog'.rows : q.id = r.id}) = 1
        /\ \A q \in scanlog'.rows :
              q.id = r.id => q.image_path = r.image_path

\* C26: no operation removes a scan: across any sequence of operations
\* the set of scan ids only grows, and an existing scan's id and
\* image_path never change.
C26_ScansNeverRemoved ==
    [][ScanRowIds(scanlog.rows) \subseteq ScanRowIds(scanlog'.rows) /\ C26_RowsKept]_allvars

\* update_scan_status changed an existing scan, with another scan beside it
C26_Witness ==
    /\ scanlog.last.op = "update_scan_status"
    /\ ~scanlog.last.raised
    /\ \E r \in scanlog.rows :
          r.id = scanlog.last.scan_id /\ r.status = "COMPLETED"
    /\ Cardinality(scanlog.rows) = 2

\* ------------------------------------------------------ match confidence
\* x <= y for floats that are not negative
AtMost(x, y) == ~x.neg /\ ~y.neg /\ ~FloatLess(y, x)

Scored == score.pc # "input"

\* the distance of the state lies in [0, 2]
DistanceInRange == AtMost(DistanceOf(score.distance), Quotient(2, 1))

\* C28: for every distance in [0,2] and every whole number of inliers,
\* confidence_from returns a value in [0,1]; confidence_from(0, n) = 1.0
\* for every n >= 60 and confidence_from(1, 0) = 0.0.
C28_ConfidenceInUnitInterval ==
    Scored /\ DistanceInRange =>
        /\ AtMost(Zero, score.confidence)
        /\ AtMost(score.confidence, One)
        /\ AtMost(score.more, One)
        /\ (DistanceOf(score.distance) = Zero /\ score.inliers >= 60
               => score.confidence = One)
        /\ (DistanceOf(score.distance) = One /\ score.inliers = 0
               => score.confidence = Zero)

\* distance 0 with more than 60 inliers was scored 1.0
C28_Witness ==
    /\ Scored
    /\ DistanceOf(score.distance) = Zero
    /\ score.inliers > 60
    /\ score.confidence = One

\* C29: confidence_from is monotone: for fixed inliers a larger distance
\* gives a confidence that is not larger; for fixed distance more inliers
\* give a confidence that is not smaller, and the same one from 60 inliers
\* on.
C29_ConfidenceMonotone ==
    Scored =>
        /\ AtMost(score.farther, score.confidence)
        /\ AtMost(score.confidence, score.more)
        /\ (score.inliers >= 60 => score.more = score.confidence)

\* a scored input whose confidence lies strictly between that of the next
\* distance and that of the next number of inliers
C29_Witness ==
    /\ Scored
    /\ FloatLess(score.farther, score.confidence)
    /\ FloatLess(score.confidence, score.more)

Accepts(c) == AtMost(CONFIDENCE_ACCEPT, c)
Reviews(c) == AtMost(CONFIDENCE_REVIEW, c) /\ FloatLess(c, CONFIDENCE_ACCEPT)
Rejects(c) == FloatLess(c, CONFIDENCE_REVIEW)

InOneClass(c) ==
    /\ Accepts(c) \/ Reviews(c) \/ Rejects(c)
    /\ ~(Accepts(c) /\ Reviews(c))
    /\ ~(Accepts(c) /\ Rejects(c))
    /\ ~(Reviews(c) /\ Rejects(c))

\* C30 (as stated): with the thresholds accept >= 0.85 and review >= 0.70
\* every confidence falls in exactly one of accept, review and reject, and
\* distance 0.05 with 42 inliers yields exactly 0.85 and is accepted.
C30_BoundaryPairAccepted ==
    /\ Scored => InOneClass(score.confidence)
    /\ score.pc = "decided"
          /\ DistanceOf(score.distance) = Quotient(5, 100)
          /\ score.inliers = 42
          => /\ score.confidence = CONFIDENCE_ACCEPT
             /\ score.decision = "accept"

\* ------------------------------------------- reads without a cards row
\* C38: get_price_data_from_cache returns a snapshot for a card_id only if
\* a cards row exists for that card_id: a price written for an id that was
\* never passed to upsert_card is returned by no read, whatever the window.
C38_ReadNeedsCardRow ==
    store.read.done /\ store.read.result.some
        => store.read.card_id \in CardRowIds(store)

\* a read found nothing although a prices row of the card lies within the
\* window: the card has no cards row
C38_Witness ==
    /\ store.read.done
    /\ ~store.read.result.some
    /\ store.read.card_id \notin CardRowIds(store)
    /\ \E r \in store.prices :
          /\ r.card_id = store.read.card_id
          /\ fresh(r.updated_at, store.now, store.read.hours)

\* --------------------------------------------------- the backoff sleeps
\* the retries the request in req has made so far
Retries == IF req.gets = 0 THEN 0 ELSE req.gets - 1

\* C35 (as stated): the catalog client does not sleep before its first GET
\* attempt, and before its k-th retry it sleeps exactly BACKOFF_S[k-1]:
\* the delays come in schedule order and there are as many sleeps as
\* retries.
C35_SleepsOnlyBeforeRetries ==
    /\ req.gate_wait = 0
    /\ req.sleeps = SubSeq(BACKOFF_S, 1, Retries)

\* C35 (amended): leaving aside the wait of the rate-limit gate that
\* _request_with_backoff takes before its loop, the client does not sleep
\* before its first GET attempt, and before its k-th retry it sleeps
\* exactly BACKOFF_S[k-1]: the delays of the loop come in schedule order
\* and there are as many of them as retries.
C35_LoopSleepsOnlyBeforeRetries ==
    /\ req.gets <= 1 => req.sleeps = <<>>
    /\ req.sleeps = SubSeq(BACKOFF_S, 1, Retries)

\* a request of the resolver that waited at the gate and then went through
\* the whole schedule
C35_Witness ==
    /\ req.client = "resolver"
    /\ req.gate_wait > 0
    /\ req.gets = 1 + Len(BACKOFF_S)
    /\ req.sleeps = BACKOFF_S

\* ------------------------------------------------- what search_cards returns
\* search_cards was called and its request returned the response
Searched == match.op = "search_cards" /\ match.outcome = "returned"

\* the places of the response that search_cards looks at and that carry an
\* identifier and a name
KeptPlaces ==
    { j \in 1..Len(match.data) :
         /\ j <= match.limit
         /\ match.data[j].id.some
         /\ match.data[j].name.some }

\* the k-th of them
KeptPlace(k) ==
    CHOOSE j \in KeptPlaces : Cardinality({v \in KeptPlaces : v <= j}) = k

C37_InterruptStopsAtScanBoundary ==
    pc = "interrupted" /\ cur.id # 0 =>
        /\ scans[cur.id].status # "NEW"
        /\ ~(scans[cur.id].status = "NEW"
               /\ (cur.card_written \/ cur.price_written))

\* ------------------------------------------- geometric verifier (RerankSpec)
\* Longest candidate list handed to rerank_with_orb.
MaxRerank == 3
\* Most descriptors ORB finds in the query image.
MaxDescriptors == 9
\* match/rerank.py: `if len(good) < 8`
MIN_GOOD == 8
\* knnMatch(des1, des2, k=2)
KNN_K == 2

\* An image as the verifier sees it: whether cv2.imread decodes it,
\* how many descriptors ORB finds in it (0: detectAndCompute gives None),
\* how many query descriptors pass the ratio test against it, and the mask
\* findHomography gives (None, or the number of inliers it marks).
Image(readable, descriptors, good, mask) ==
    [readable |-> readable, descriptors |-> descriptors, good |-> good,
     mask |-> mask]
RefImages ==
    {Image(FALSE, 0, 0, NoneV), Image(TRUE, 0, 0, NoneV),
     Image(TRUE, 1, 0, NoneV)}
    \cup {Image(TRUE, MaxDescriptors, g, NoneV) : g \in {3, MIN_GOOD - 1}}
    \cup {Image(TRUE, MaxDescriptors, MIN_GOOD, m) : m \in {NoneV, Some(5)}}
    \cup {Image(TRUE, MaxDescriptors, MaxDescriptors, Some(MaxDescriptors))}
\* The query image, by the number of descriptors ORB finds in it.
Queries == {0, 1, MaxDescriptors}
ImageLists == UNION {[1..n -> RefImages] : n \in 0..MaxRerank}
CardName(k) == <<"card", k>>
\* The (cid, img_path, dist) tuples of the visual search, nearest first.
CandidatesOf(images) ==
    [k \in 1..Len(images) |-> [cid |-> CardName(k), img |-> images[k]]]

\* bf.knnMatch: every query descriptor gets its k nearest candidate
\* descriptors, fewer when the candidate has fewer than k.
neighbours(img) == Smaller(KNN_K, img.descriptors)
\* [m for m, n in matches if n and m.distance < 0.75 * n.distance]
good_matches(query, img) == Smaller(img.good, query)

OrbReturn(v, h) == [raised |-> FALSE, val |-> v, homography |-> h]
OrbRaise == [raised |-> TRUE, val |-> 0, homography |-> FALSE]
orb_inliers(query, img) ==
    IF query = 0 \/ img.descriptors = 0 THEN OrbReturn(0, FALSE)
    ELSE IF neighbours(img) < KNN_K THEN OrbRaise
    ELSE IF good_matches(query, img) < MIN_GOOD
         THEN OrbReturn(good_matches(query, img), FALSE)
    ELSE OrbReturn(IF img.mask.some THEN img.mask.val
                   ELSE good_matches(query, img), TRUE)

\* best = ("", -1)
Sentinel == [cid |-> <<>>, inl |-> -1]
\* The loop of rerank_with_orb from position k of candidates[:topk] on.
RECURSIVE rerank_from(_, _, _, _, _)
rerank_from(query, cands, k, best, seen) ==
    IF k > Len(cands) THEN [raised |-> FALSE, best |-> best, seen |-> seen]
    ELSE IF ~cands[k].img.readable
         THEN rerank_from(query, cands, k + 1, best, seen)
    ELSE IF orb_inliers(query, cands[k].img).raised
         THEN [raised |-> TRUE, best |-> best, seen |-> seen \cup {k}]
    ELSE rerank_from(query, cands, k + 1,
             IF orb_inliers(query, cands[k].img).val > best.inl
             THEN [cid |-> cands[k].cid,
                   inl |-> orb_inliers(query, cands[k].img).val]
             ELSE best,
             seen \cup {k})
rerank_with_orb(query, candidates, topk) ==
    rerank_from(query, SubSeq(candidates, 1, Smaller(topk, Len(candidates))),
                1, Sentinel, {})

RerankInit ==
    /\ Quiet
    /\ gate = <<>>
    /\ match = <<>>
    /\ store = <<>>
    /\ scanlog = <<>>
    /\ score = <<>>
    /\ retried = <<>>
    /\ refindex = <<>>
    /\ \E q \in Queries, images \in ImageLists, topk \in 1..MaxRerank :
          rerank = [query |-> q, candidates |-> CandidatesOf(images),
                    topk |-> topk, op |-> "none", outcome |-> "none",
                    result |-> Sentinel, homography |-> FALSE, seen |-> {}]

\* orb_inliers(query_bgr, cand_bgr) on the decoded image of the nearest
\* candidate.
OrbInliers ==
    /\ rerank.op = "none"
    /\ Len(rerank.candidates) >= 1
    /\ rerank.candidates[1].img.readable
    /\ LET r == orb_inliers(rerank.query, rerank.candidates[1].img) IN
          rerank' = [rerank EXCEPT
              !.op = "orb_inliers",
              !.outcome = IF r.raised THEN "raised" ELSE "returned",
              !.result = [cid |-> <<>>, inl |-> r.val],
              !.homography = r.homography]
    /\ UNCHANGED <<vars, gate, match, store, scanlog, score, retried, refindex>>

RerankWithOrb ==
    /\ rerank.op = "none"
    /\ LET r == rerank_with_orb(rerank.query, rerank.candidates, rerank.topk) IN
          rerank' = [rerank EXCEPT
              !.op = "rerank_with_orb",
              !.outcome = IF r.raised THEN "raised" ELSE "returned",
              !.result = r.best,
              !.seen = r.seen]
    /\ UNCHANGED <<vars, gate, match, store, scanlog, score, retried, refindex>>

RerankNext == OrbInliers \/ RerankWithOrb
RerankSpec == RerankInit /\ [][RerankNext]_allvars

\* ------------------------------------------------------------ claims C31-C33
Reranked == rerank.op = "rerank_with_orb"
\* the places of the loadable candidates among the first topk
Loadable ==
    {k \in 1..Smaller(rerank.topk, Len(rerank.candidates)) :
        rerank.candidates[k].img.readable}
InliersAt(k) == orb_inliers(rerank.query, rerank.candidates[k].img).val

\* C31: rerank_with_orb returns the candidate with the largest inlier count
\* among the loadable candidates within the first topk entries, the first
\* of them in input order when several share that count, and evaluates no
\* candidate after the first topk.
C31_RerankReturnsFirstBest ==
    Reranked /\ Loadable # {} =>
        /\ rerank.outcome = "returned"
        /\ rerank.seen \subseteq 1..rerank.topk
        /\ \E p \in Loadable :
              /\ rerank.result = [cid |-> rerank.candidates[p].cid,
                                  inl |-> InliersAt(p)]
              /\ \A q \in Loadable :
                    /\ InliersAt(q) <= InliersAt(p)
                    /\ InliersAt(q) = InliersAt(p) => p <= q

\* C32: rerank_with_orb skips a candidate whose image cannot be loaded,
\* returns the sentinel ("", -1) exactly when no candidate among the first
\* topk could be loaded, and in every other case returns an inlier count
\* that is at least 0.
C32_SentinelOnlyWhenNothingLoads ==
    Reranked =>
        /\ rerank.outcome = "returned"
        /\ rerank.result = Sentinel <=> Loadable = {}
        /\ Loadable # {} => rerank.result.inl >= 0

\* the descriptor matches that pass the ratio test: none when an image has
\* no descriptors or the query descriptors have no second neighbour
PassRatioTest ==
    IF rerank.query = 0 \/ rerank.candidates[1].img.descriptors < KNN_K
    THEN 0
    ELSE good_matches(rerank.query, rerank.candidates[1].img)

\* C33: when fewer than 8 descriptor matches pass the ratio test, orb_inliers
\* returns that count, does not call findHomography and does not raise.
C33_FewMatchesReturnCount ==
    rerank.op = "orb_inliers" /\ PassRatioTest < MIN_GOOD =>
        /\ rerank.outcome = "returned"
        /\ rerank.result.inl = PassRatioTest
        /\ ~rerank.homography

\* ------------------------------------------------- retry decorator (RetrySpec)
\* Largest max_attempts a function is wrapped with.
MaxAttempts == 4
\* utils/retry.py, the defaults of retry(), delays in milliseconds
base_delay == 1000
max_delay == 60000
exponential_base == 2
\* (0.5 + random.random() * 0.5), in percent: some values of the factor
JitterPercent == {50, 75, 99}

RECURSIVE Power(_, _)
Power(b, n) == IF n = 0 THEN 1 ELSE b * Power(b, n - 1)

\* The wrapped function: its k-th invocation returns a value of its own or
\* raises an exception of its own, as its script says.
Scripts == UNION {[1..n -> BOOLEAN] : n \in 1..MaxAttempts}
ValueOf(k) == <<"value", k>>
ExceptionOf(k) == <<"exception", k>>

\* `if attempt == max_attempts`
gives_up_one_early(attempt, max_attempts) == attempt + 1 >= max_attempts
gives_up(attempt, max_attempts) == attempt = max_attempts
\* delay = min(base_delay * (exponential_base ** (attempt - 1)), max_delay)
backoff_delay(attempt) ==
    Smaller(base_delay * Power(exponential_base, attempt - 1), max_delay)

\* One pass of `for attempt in range(1, max_attempts + 1)` in wrapper and in
\* async_wrapper: the function is invoked; its value is returned, or its
\* exception is raised on the last attempt, or the pass sleeps.
attempt_pass(st, percent) ==
    IF st.script[st.attempt]
    THEN [st EXCEPT !.calls = @ + 1, !.outcome = "returned",
                    !.result = ValueOf(st.attempt)]
    ELSE IF gives_up(st.attempt, st.max_attempts)
    THEN [st EXCEPT !.calls = @ + 1, !.outcome = "raised",
                    !.result = ExceptionOf(st.attempt)]
    ELSE [st EXCEPT !.calls = @ + 1, !.attempt = @ + 1,
                    !.last_exception = ExceptionOf(st.attempt),
                    !.sleeps = Append(@, (backoff_delay(st.attempt) * percent)
                                             \div 100)]

RetryInit ==
    /\ Quiet
    /\ gate = <<>>
    /\ match = <<>>
    /\ store = <<>>
    /\ scanlog = <<>>
    /\ score = <<>>
    /\ rerank = <<>>
    /\ refindex = <<>>
    /\ \E script \in Scripts, is_async \in BOOLEAN :
          retried = [max_attempts |-> Len(script), script |-> script,
                     is_async |-> is_async, attempt |-> 1, calls |-> 0,
                     last_exception |-> <<>>, sleeps |-> <<>>,
                     outcome |-> "running", result |-> <<>>]

\* wrapper: func is a plain function
Wrapper ==
    /\ retried.outcome = "running"
    /\ ~retried.is_async
    /\ \E percent \in JitterPercent : retried' = attempt_pass(retried, percent)
    /\ UNCHANGED <<vars, gate, match, store, scanlog, score, rerank, refindex>>

\* async_wrapper: asyncio.iscoroutinefunction(func)
AsyncWrapper ==
    /\ retried.outcome = "running"
    /\ retried.is_async
    /\ \E percent \in JitterPercent : retried' = attempt_pass(retried, percent)
    /\ UNCHANGED <<vars, gate, match, store, scanlog, score, rerank, refindex>>

RetryNext == Wrapper \/ AsyncWrapper
RetrySpec == RetryInit /\ [][RetryNext]_allvars

\* ---------------------------------------------------------------- claim C34
\* the invocations of the script that succeed
Successes == {k \in 1..retried.max_attempts : retried.script[k]}
FirstSuccess == CHOOSE k \in Successes : \A j \in Successes : k <= j

\* C34: a function wrapped by retry(max_attempts=N) is invoked until it
\* first succeeds and at most N times; the value of its first success is
\* returned with no further invocation, and after N failures in a row the
\* last exception is raised; wrapper and async_wrapper alike.
C34_InvokedUntilFirstSuccess ==
    /\ retried.calls <= retried.max_attempts
    /\ Successes # {} => retried.calls <= FirstSuccess
    /\ retried.outcome = "running" =>
          \A k \in 1..retried.calls : ~retried.script[k]
    /\ retried.outcome # "running" =>
          IF Successes # {}
          THEN /\ retried.outcome = "returned"
               /\ retried.calls = FirstSuccess
               /\ retried.result = ValueOf(FirstSuccess)
          ELSE /\ retried.outcome = "raised"
               /\ retried.calls = retried.max_attempts
               /\ retried.result = ExceptionOf(retried.max_attempts)
C34_Witness ==
    /\ retried.is_async
    /\ retried.outcome = "returned"
    /\ retried.calls = retried.max_attempts
    /\ retried.calls >= 3
    /\ Len(retried.sleeps) = retried.calls - 1

\* ------------------------------------------------ reference index (IndexSpec)
\* Longest card list handed to build_index.
MaxCards == 3

\* What build_index finds for a card's image: a file on disk that
\* cv2.imread decodes or does not decode, or no file and a download that
\* gives decodable bytes, undecodable bytes, or an HTTP error.
ImageStates ==
    {"decodable", "undecodable", "fetched_decodable", "fetched_undecodable",
     "fetch_fails"}
CardLists ==
    UNION {[1..n -> ImageStates] : n \in 0..MaxCards}
\* The catalog records: the k-th card has its own id.
CatalogCards(states) ==
    [k \in 1..Len(states) |-> [id |-> CardName(k), image |-> states[k]]]

\* r.raise_for_status() of the download
download_raises(c) == c.image = "fetch_fails"
\* bgr = cv2.imread(str(img_path)) is not None
decodes(c) == c.image \in {"decodable", "fetched_decodable"}
\* img_path.exists() after the first loop has run over the card
image_exists(c) == ~download_raises(c)
\* vec = em.embed_image(bgr)[0]
embed_image(c) == <<"embedding", c.id>>

RECURSIVE embedded_cards(_)
\* The cards that reach ids.append(cid) / vecs.append(vec), in order.
embedded_cards(cs) ==
    IF cs = <<>> THEN <<>>
    ELSE IF decodes(Head(cs)) THEN <<Head(cs)>> \o embedded_cards(Tail(cs))
    ELSE embedded_cards(Tail(cs))
RECURSIVE meta_rows(_)
\* meta_data: one row per card whose image file exists.
meta_rows(cs) ==
    IF cs = <<>> THEN <<>>
    ELSE IF image_exists(Head(cs))
         THEN <<[card_id |-> Head(cs).id]>> \o meta_rows(Tail(cs))
    ELSE meta_rows(Tail(cs))

\* index.add_items(vecs, np.arange(len(ids))): label l holds the l-th vector
add_items(cs) ==
    [l \in 0..(Len(embedded_cards(cs)) - 1) |->
        embed_image(embedded_cards(cs)[l + 1])]
\* {i: cid for i, cid in enumerate(self.meta["card_id"].tolist())}
row_to_id_of(meta) == [l \in 0..(Len(meta) - 1) |-> meta[l + 1].card_id]

NoFiles == [written |-> FALSE, hnsw |-> <<>>, meta |-> <<>>]
\* What build_index leaves in index_dir, and whether it raised.
build_index(cs) ==
    IF \E k \in 1..Len(cs) : download_raises(cs[k])
    THEN [raised |-> TRUE, files |-> NoFiles]
    ELSE IF embedded_cards(cs) = <<>>
    THEN [raised |-> FALSE, files |-> NoFiles]
    ELSE [raised |-> FALSE,
          files |-> [written |-> TRUE, hnsw |-> add_items(cs),
                     meta |-> meta_rows(cs)]]

IndexInit ==
    /\ Quiet
    /\ gate = <<>>
    /\ match = <<>>
    /\ store = <<>>
    /\ scanlog = <<>>
    /\ score = <<>>
    /\ rerank = <<>>
    /\ retried = <<>>
    /\ \E states \in CardLists :
          refindex = [cards |-> CatalogCards(states), pc |-> "start",
                      files |-> NoFiles, row_to_id |-> <<>>,
                      label |-> -1, found |-> <<>>]

BuildIndex ==
    /\ refindex.pc = "start"
    /\ refindex' = [refindex EXCEPT
          !.pc = IF build_index(refindex.cards).raised THEN "build_raised"
                 ELSE "built",
          !.files = build_index(refindex.cards).files]
    /\ UNCHANGED <<vars, gate, match, store, scanlog, score, rerank, retried>>

\* AnnIndex(index_dir): pd.read_parquet raises when build_index wrote nothing
AnnIndexInit ==
    /\ refindex.pc = "built"
    /\ refindex' = [refindex EXCEPT
          !.pc = IF refindex.files.written THEN "loaded" ELSE "load_raised",
          !.row_to_id = row_to_id_of(refindex.files.meta)]
    /\ UNCHANGED <<vars, gate, match, store, scanlog, score, rerank, retried>>

\* AnnIndex.search: knn_query gives a label of the index, row_to_id its id
Search ==
    /\ refindex.pc = "loaded"
    /\ \E l \in DOMAIN refindex.files.hnsw :
          refindex' = [refindex EXCEPT
              !.pc = "searched", !.label = l,
              !.found = refindex.row_to_id[l]]
    /\ UNCHANGED <<vars, gate, match, store, scanlog, score, rerank, retried>>

IndexNext == BuildIndex \/ AnnIndexInit \/ Search
IndexSpec == IndexInit /\ [][IndexNext]_allvars

\* ---------------------------------------------------------------- claim C39
\* C39: for every reference index written by build_index and loaded by
\* AnnIndex, the card id row_to_id gives for an index label is the id of
\* the card whose embedding is stored under that label.
C39_RowToIdNamesTheEmbeddedCard ==
    refindex.pc \in {"loaded", "searched"} =>
        \A l \in DOMAIN refindex.files.hnsw :
            /\ l \in DOMAIN refindex.row_to_id
            /\ <<"embedding", refindex.row_to_id[l]>> = refindex.files.hnsw[l]

====
